---------------------------- MODULE Spec2Model ----------------------------
(***************************************************************************)
(* Polyomino puzzle solver: the GameBoard occupancy bookkeeping            *)
(* (src/models/board.py), the backtracking search                          *)
(* (src/polyomino_jigsaw_solver/solver/solver.py), the PuzzleState         *)
(* (src/models/puzzle_state.py) and the PuzzlePiece constructor            *)
(* (src/models/piece.py, src/logic/validator.py).                          *)
(* The shape functions of src/logic/rotation.py and                        *)
(* src/logic/validator.py and the PuzzleBoard the solver works on are      *)
(* modelled as well.                                                       *)
(*                                                                         *)
(* Several specifications share this module.                               *)
(*   Spec       a client drives one GameBoard through can_place_piece,     *)
(*              place_piece, remove_piece, clear, is_full and is_empty;    *)
(*   SpecSolver one run of solve_puzzle on a bounded puzzle, with or       *)
(*              without a renderer;                                        *)
(*   SpecState  a client drives one PuzzleState through place_piece,       *)
(*              remove_piece and is_solved;                                *)
(*   SpecPiece  one call of the PuzzlePiece constructor;                   *)
(*   SpecShape  one call of a rotation, orientation or connectivity        *)
(*              function on a shape;                                       *)
(*   SpecAnchor one call of check_piece, insert_piece or remove_piece on a *)
(*              PuzzleBoard;                                               *)
(*   SpecValidator the client of Spec, which also calls                    *)
(*              validate_piece_placement with the board's occupied cells.  *)
(***************************************************************************)
EXTENDS Integers, Sequences, FiniteSets, TLC

(***************************************************************************)
(* Bounds of the GameBoard specification.                                  *)
(***************************************************************************)
MaxCells == 4
MaxBlocked == 1

(***************************************************************************)
(* Python values.  None is the empty-cell marker, BLOCKED the in-band      *)
(* marker GameBoard.__init__ writes into blocked cells.  Piece ids are     *)
(* strings other than the marker.                                          *)
(***************************************************************************)
None == "None"
BLOCKED == "__BLOCKED__"
PieceIds == {"A", "B"}

(***************************************************************************)
(* Piece shapes handed to the board: sets of (row, col) offsets.  The      *)
(* board accepts any set of integer pairs, so the empty shape and a shape  *)
(* with a negative offset are included.                                    *)
(***************************************************************************)
Shapes ==
  { {},
    {<<0, 0>>},
    {<<0, 0>>, <<0, 1>>},
    {<<0, 0>>, <<1, 0>>, <<0, 1>>},
    {<<0, 0>>, <<-1, 0>>} }

VARIABLES
  width,          \* GameBoard._width
  height,         \* GameBoard._height
  cells,          \* GameBoard._cells : (row, col) -> piece id, BLOCKED or None
  blocked_cells,  \* GameBoard._blocked_cells
  pc,             \* position of the client: "idle", "called", "returned"
  call,           \* the call in progress: [op, piece_id, piece_shape, position]
  ret             \* what the last call returned or raised

boardVars == <<width, height, cells, blocked_cells, pc, call, ret>>

VARIABLES
  puzzle,         \* the arguments solve_puzzle was first called with
  board,          \* the PuzzleBoard: [width, height, filled_cells]
  pieces,         \* the dict PuzzlePiece -> remaining count
  stack,          \* the active solve_puzzle calls, outermost first
  result,         \* value returned by the call that ended last
  log,            \* the insert_piece / remove_piece calls made so far
  renderer,       \* TRUE when solve_puzzle was given a renderer
  updates         \* what renderer.update received, in call order

solverVars == <<puzzle, board, pieces, stack, result, log, renderer, updates>>

VARIABLES
  state_pieces,       \* PuzzleState._pieces : the roster
  placed_pieces,      \* PuzzleState._placed_pieces : <<piece, position>> list
  available_pieces,   \* PuzzleState._available_pieces
  backtrack_history,  \* PuzzleState._backtrack_history : the operation log
  current_index       \* PuzzleState._current_index

stateVars == <<state_pieces, placed_pieces, available_pieces,
               backtrack_history, current_index>>

VARIABLES
  arg_shape,      \* the shape PuzzlePiece.__init__ is called with
  made,           \* what the constructor gave: the piece or the error
  piece_pc        \* "called" before the constructor ran, "returned" after

pieceVars == <<arg_shape, made, piece_pc>>

vars == <<boardVars, solverVars, stateVars, pieceVars>>

\* What each component leaves alone: the variables of the other components.
outsideBoard == <<solverVars, stateVars, pieceVars>>

outsideSolver == <<boardVars, stateVars, pieceVars>>

outsideState == <<solverVars, pieceVars>>

outsidePiece == <<boardVars, solverVars, stateVars>>

(***************************************************************************)
(* GameBoard.__init__ : every cell None, then every blocked cell marked.   *)
(***************************************************************************)
BoardCells(w, h) == (0 .. h - 1) \X (0 .. w - 1)

InitCells(w, h, blocked) ==
  [c \in BoardCells(w, h) |-> IF c \in blocked THEN BLOCKED ELSE None]

(***************************************************************************)
(* dict.get : None for a key the mapping does not hold.                    *)
(***************************************************************************)
Get(cs, c) == IF c \in DOMAIN cs THEN cs[c] ELSE None

Translate_row_for_col(position, offset) ==
  <<position[1] + offset[1], position[1] + offset[2]>>

Translate(position, offset) ==
  <<position[1] + offset[1], position[2] + offset[2]>>

filled_area_no_blocked(cs) ==
  Cardinality({c \in DOMAIN cs : cs[c] # None /\ cs[c] # BLOCKED})

filled_area(cs) == Cardinality({c \in DOMAIN cs : cs[c] # None})

empty_area(cs) == Cardinality({c \in DOMAIN cs : cs[c] = None})

(***************************************************************************)
(* GameBoard.can_place_piece : the first failing cell returns False.       *)
(***************************************************************************)
CellFree(cs, row, col) ==
  /\ 0 <= row /\ row < height /\ 0 <= col /\ col < width
  /\ <<row, col>> \notin blocked_cells
  /\ ~ (Get(cs, <<row, col>>) # None /\ Get(cs, <<row, col>>) # BLOCKED)

can_place_piece_no_overlap_check(cs, piece_shape, position) ==
  \A off \in piece_shape :
    LET row == position[1] + off[1]
        col == position[2] + off[2]
    IN  /\ 0 <= row /\ row < height /\ 0 <= col /\ col < width
        /\ <<row, col>> \notin blocked_cells

can_place_piece_no_lower_bound(cs, piece_shape, position) ==
  \A off \in piece_shape :
    LET row == position[1] + off[1]
        col == position[2] + off[2]
    IN  /\ row < height /\ col < width
        /\ <<row, col>> \notin blocked_cells
        /\ ~ (Get(cs, <<row, col>>) # None /\ Get(cs, <<row, col>>) # BLOCKED)

can_place_piece_marker_only(cs, piece_shape, position) ==
  \A off \in piece_shape :
    LET row == position[1] + off[1]
        col == position[2] + off[2]
    IN  /\ 0 <= row /\ row < height /\ 0 <= col /\ col < width
        /\ Get(cs, <<row, col>>) = None

can_place_piece(cs, piece_shape, position) ==
  \A off \in piece_shape :
    CellFree(cs, position[1] + off[1], position[2] + off[2])

(***************************************************************************)
(* GameBoard.place_piece : ValueError when can_place_piece refuses,        *)
(* otherwise every covered cell is assigned piece_id.  The result is the   *)
(* new cell mapping and the return value.                                  *)
(***************************************************************************)
Assign(cs, covered, v) ==
  [c \in (DOMAIN cs) \cup covered |-> IF c \in covered THEN v ELSE cs[c]]

Covered(piece_shape, position) ==
  {Translate(position, off) : off \in piece_shape}

place_piece_unchecked(cs, piece_id, piece_shape, position) ==
  IF \A c \in Covered(piece_shape, position) : c \in DOMAIN cs
  THEN [cells |-> Assign(cs, Covered(piece_shape, position), piece_id),
        ret |-> "True"]
  ELSE [cells |-> cs, ret |-> "ValueError"]

place_piece(cs, piece_id, piece_shape, position) ==
  IF ~ can_place_piece(cs, piece_shape, position)
  THEN [cells |-> cs, ret |-> "ValueError"]
  ELSE [cells |-> Assign(cs, Covered(piece_shape, position), piece_id),
        ret |-> "True"]

(***************************************************************************)
(* GameBoard.remove_piece : ValueError unless every covered cell holds     *)
(* piece_id, otherwise every covered cell is assigned None.                *)
(***************************************************************************)
remove_piece_any_id(cs, piece_id, piece_shape, position) ==
  IF \E c \in Covered(piece_shape, position) : Get(cs, c) \notin PieceIds
  THEN [cells |-> cs, ret |-> "ValueError"]
  ELSE [cells |-> Assign(cs, Covered(piece_shape, position), None),
        ret |-> "True"]

remove_piece(cs, piece_id, piece_shape, position) ==
  IF \E c \in Covered(piece_shape, position) : Get(cs, c) # piece_id
  THEN [cells |-> cs, ret |-> "ValueError"]
  ELSE [cells |-> Assign(cs, Covered(piece_shape, position), None),
        ret |-> "True"]

(***************************************************************************)
(* GameBoard.clear : every cell of the mapping becomes None.               *)
(***************************************************************************)
clear(cs) == [c \in DOMAIN cs |-> None]

(***************************************************************************)
(* GameBoard.is_full : no cell of the mapping is None.                     *)
(* GameBoard.is_empty : every cell of the mapping is None or the marker.   *)
(***************************************************************************)
is_full_ignoring_cells(cs) == TRUE

is_full(cs) == \A c \in DOMAIN cs : cs[c] # None

is_empty(cs) == \A c \in DOMAIN cs : cs[c] = None \/ cs[c] = BLOCKED

(***************************************************************************)
(* The board specification.                                                *)
(***************************************************************************)
NoCall == [op |-> "none", piece_id |-> None, piece_shape |-> {},
           position |-> <<0, 0>>]

Positions == (-1 .. height) \X (-1 .. width)

InitBoard ==
  /\ width \in 1 .. MaxCells
  /\ height \in 1 .. MaxCells
  /\ width * height <= MaxCells
  /\ blocked_cells \in
       {b \in SUBSET BoardCells(width, height) : Cardinality(b) <= MaxBlocked}
  /\ cells = InitCells(width, height, blocked_cells)
  /\ pc = "idle"
  /\ call = NoCall
  /\ ret = None

Invoke ==
  /\ pc = "idle"
  /\ \E op \in {"can_place_piece", "place_piece", "remove_piece", "clear",
                  "is_full", "is_empty"},
        id \in PieceIds, s \in Shapes, p \in Positions :
       call' = CASE op \in {"clear", "is_full", "is_empty"} ->
                      [NoCall EXCEPT !.op = op]
                 [] op = "can_place_piece" ->
                      [NoCall EXCEPT !.op = op, !.piece_shape = s,
                                     !.position = p]
                 [] OTHER ->
                      [op |-> op, piece_id |-> id, piece_shape |-> s,
                       position |-> p]
  /\ pc' = "called"
  /\ UNCHANGED <<width, height, cells, blocked_cells, ret>>
  /\ UNCHANGED outsideBoard

CanPlacePiece ==
  /\ pc = "called" /\ call.op = "can_place_piece"
  /\ ret' = IF can_place_piece(cells, call.piece_shape, call.position)
            THEN "True" ELSE "False"
  /\ pc' = "returned"
  /\ UNCHANGED <<width, height, cells, blocked_cells, call>>
  /\ UNCHANGED outsideBoard

PlacePiece ==
  /\ pc = "called" /\ call.op = "place_piece"
  /\ LET r == place_piece(cells, call.piece_id, call.piece_shape,
                          call.position)
     IN  cells' = r.cells /\ ret' = r.ret
  /\ pc' = "returned"
  /\ UNCHANGED <<width, height, blocked_cells, call>>
  /\ UNCHANGED outsideBoard

RemovePiece ==
  /\ pc = "called" /\ call.op = "remove_piece"
  /\ LET r == remove_piece(cells, call.piece_id, call.piece_shape,
                           call.position)
     IN  cells' = r.cells /\ ret' = r.ret
  /\ pc' = "returned"
  /\ UNCHANGED <<width, height, blocked_cells, call>>
  /\ UNCHANGED outsideBoard

Clear ==
  /\ pc = "called" /\ call.op = "clear"
  /\ cells' = clear(cells)
  /\ ret' = None
  /\ pc' = "returned"
  /\ UNCHANGED <<width, height, blocked_cells, call>>
  /\ UNCHANGED outsideBoard

IsFull ==
  /\ pc = "called" /\ call.op = "is_full"
  /\ ret' = IF is_full(cells) THEN "True" ELSE "False"
  /\ pc' = "returned"
  /\ UNCHANGED <<width, height, cells, blocked_cells, call>>
  /\ UNCHANGED outsideBoard

IsEmpty ==
  /\ pc = "called" /\ call.op = "is_empty"
  /\ ret' = IF is_empty(cells) THEN "True" ELSE "False"
  /\ pc' = "returned"
  /\ UNCHANGED <<width, height, cells, blocked_cells, call>>
  /\ UNCHANGED outsideBoard

Resume ==
  /\ pc = "returned"
  /\ pc' = "idle"
  /\ call' = NoCall
  /\ ret' = None
  /\ UNCHANGED <<width, height, cells, blocked_cells>>
  /\ UNCHANGED outsideBoard

NextBoard ==
  \/ Invoke
  \/ CanPlacePiece
  \/ PlacePiece
  \/ RemovePiece
  \/ Clear
  \/ IsFull
  \/ IsEmpty
  \/ Resume

(***************************************************************************)
(* The solver (solver.py).  Its board is a PuzzleBoard, whose cells and    *)
(* transformations are (x, y) pairs, x the column and y the row.           *)
(***************************************************************************)

(***************************************************************************)
(* Bounds of the solver specification: cells of the board, pre-filled      *)
(* cells, copies of one piece.                                             *)
(***************************************************************************)
MaxArea == 6
MaxPrefilled == 1
MaxCount == 2

Min(S) == CHOOSE m \in S : \A n \in S : m <= n

RECURSIVE SumOver(_, _)
SumOver(S, f) ==
  IF S = {} THEN 0
  ELSE LET e == CHOOSE x \in S : TRUE IN f[e] + SumOver(S \ {e}, f)

Range(q) == {q[i] : i \in 1 .. Len(q)}

(***************************************************************************)
(* PuzzlePiece: a base shape and its transformations, the distinct images  *)
(* of the shape under the four rotations with and without a mirror, each   *)
(* moved to the origin, in the order they are produced.                    *)
(***************************************************************************)
BaseShape ==
  [mono   |-> {<<0, 0>>},
   domino |-> {<<0, 0>>, <<1, 0>>},
   ell    |-> {<<0, 0>>, <<1, 0>>, <<0, 1>>},
   square |-> {<<0, 0>>, <<1, 0>>, <<0, 1>>, <<1, 1>>}]

ToOrigin(t) ==
  LET mx == Min({c[1] : c \in t})
      my == Min({c[2] : c \in t})
  IN  {<<c[1] - mx, c[2] - my>> : c \in t}

Rotate90(t) == ToOrigin({<<c[2], 0 - c[1]>> : c \in t})

Mirror(t) == ToOrigin({<<0 - c[1], c[2]>> : c \in t})

RECURSIVE Distinct(_)
Distinct(q) ==
  IF q = <<>> THEN <<>>
  ELSE LET front == Distinct(SubSeq(q, 1, Len(q) - 1))
       IN  IF q[Len(q)] \in Range(front) THEN front
           ELSE Append(front, q[Len(q)])

Orientations(shape) ==
  LET r0 == ToOrigin(shape)
      r1 == Rotate90(r0)
      r2 == Rotate90(r1)
      r3 == Rotate90(r2)
  IN  Distinct(<<r0, Mirror(r0), r1, Mirror(r1), r2, Mirror(r2),
                 r3, Mirror(r3)>>)

transformations ==
  [piece \in DOMAIN BaseShape |-> Orientations(BaseShape[piece])]

(***************************************************************************)
(* The anchoring of a transformation at (row, col): the leftmost cell of   *)
(* its topmost row lands on x = col, y = row.                              *)
(***************************************************************************)
\* The other anchoring: the corner of the bounding box on the target cell.
piece_cells_box_origin(transformation, row, col) ==
  LET min_y == Min({c[2] : c \in transformation})
      min_x == Min({c[1] : c \in transformation})
  IN  {<<c[1] + (col - min_x), c[2] + (row - min_y)>> : c \in transformation}

piece_cells(transformation, row, col) ==
  LET min_y == Min({c[2] : c \in transformation})
      min_x == Min({c[1] : c \in {d \in transformation : d[2] = min_y}})
  IN  {<<c[1] + (col - min_x), c[2] + (row - min_y)>> : c \in transformation}

(***************************************************************************)
(* PuzzleBoard.                                                            *)
(***************************************************************************)
is_cell_empty(b, row, col) == <<col, row>> \notin b.filled_cells

check_piece(b, transformation, row, col) ==
  \A c \in piece_cells(transformation, row, col) :
    /\ 0 <= c[1] /\ c[1] < b.width
    /\ 0 <= c[2] /\ c[2] < b.height
    /\ c \notin b.filled_cells

insert_piece(b, transformation, row, col) ==
  [b EXCEPT !.filled_cells = @ \cup piece_cells(transformation, row, col)]

board_remove_piece(b, transformation, row, col) ==
  [b EXCEPT !.filled_cells = @ \ piece_cells(transformation, row, col)]

(***************************************************************************)
(* _find_first_empty_cell: rows outermost, columns innermost; <<>> stands  *)
(* for None.                                                               *)
(***************************************************************************)
RECURSIVE ScanColumnsFirst(_, _, _)
ScanColumnsFirst(b, row, col) ==
  IF col >= b.width THEN <<>>
  ELSE IF row >= b.height THEN ScanColumnsFirst(b, 0, col + 1)
  ELSE IF is_cell_empty(b, row, col) THEN <<row, col>>
  ELSE ScanColumnsFirst(b, row + 1, col)

RECURSIVE Scan(_, _, _)
Scan(b, row, col) ==
  IF row >= b.height THEN <<>>
  ELSE IF col >= b.width THEN Scan(b, row + 1, 0)
  ELSE IF is_cell_empty(b, row, col) THEN <<row, col>>
  ELSE Scan(b, row, col + 1)

RECURSIVE ScanRow(_, _, _)
ScanRow(b, row, col) ==
  IF col >= b.width THEN <<>>
  ELSE IF is_cell_empty(b, row, col) THEN <<row, col>>
  ELSE ScanRow(b, row, col + 1)

find_first_empty_cell_first_row_only(b) == ScanRow(b, 0, 0)

find_first_empty_cell_columns_first(b) == ScanColumnsFirst(b, 0, 0)

find_first_empty_cell(b) == Scan(b, 0, 0)

(***************************************************************************)
(* solve_puzzle, lines 26-33: the area test.                               *)
(***************************************************************************)
PieceSize(piece) == Cardinality(transformations[piece][1])

total_cells_needed_ignoring_count(ps) ==
  SumOver(DOMAIN ps,
          [piece \in DOMAIN ps |->
             IF ps[piece] > 0 THEN PieceSize(piece) ELSE 0])

total_cells_needed(ps) ==
  SumOver(DOMAIN ps, [piece \in DOMAIN ps |-> PieceSize(piece) * ps[piece]])

total_cells_available(b) ==
  b.width * b.height - Cardinality(b.filled_cells)


(***************************************************************************)
(* The puzzles solve_puzzle is run on: every board of at most MaxArea      *)
(* cells with at most MaxPrefilled cells filled in advance, every count of *)
(* 0 .. MaxCount for each piece, the dict's keys in either order; and the  *)
(* two end-to-end examples, the 4x4 board with four squares and a 5x5      *)
(* board with pieces of total area 26.                                     *)
(***************************************************************************)
CellsOf(w, h) == (0 .. w - 1) \X (0 .. h - 1)

KeyOrders == {<<"mono", "domino", "ell">>, <<"ell", "domino", "mono">>}

Example4x4 ==
  [width |-> 4, height |-> 4, filled_cells |-> {}, keys |-> <<"square">>,
   counts |-> [piece \in {"square"} |-> 4]]

Example5x5 ==
  [width |-> 5, height |-> 5, filled_cells |-> {},
   keys |-> <<"square", "domino">>,
   counts |-> [piece \in {"square", "domino"} |->
                 IF piece = "square" THEN 6 ELSE 1]]

Frame(f_pc, row, col, pi, ti) ==
  [pc |-> f_pc, row |-> row, col |-> col, pi |-> pi, ti |-> ti]

EntryFrame == Frame("enter", 0, 0, 0, 0)

IdleBoard == [width |-> 1, height |-> 1, filled_cells |-> {}]

InitSolver ==
  /\ \/ \E w \in 1 .. MaxArea, h \in 1 .. MaxArea :
          /\ w * h <= MaxArea
          /\ \E f \in SUBSET CellsOf(w, h), k \in KeyOrders,
                n \in [{"mono", "domino", "ell"} -> 0 .. MaxCount] :
               /\ Cardinality(f) <= MaxPrefilled
               /\ puzzle = [width |-> w, height |-> h, filled_cells |-> f,
                            keys |-> k, counts |-> n]
     \/ puzzle = Example4x4
     \/ puzzle = Example5x5
  /\ board = [width |-> puzzle.width, height |-> puzzle.height,
              filled_cells |-> puzzle.filled_cells]
  /\ pieces = puzzle.counts
  /\ stack = <<EntryFrame>>
  /\ result = "pending"
  /\ log = <<>>
  /\ renderer \in BOOLEAN
  /\ updates = <<>>

(***************************************************************************)
(* One action per step of solve_puzzle; the last frame of the stack is the *)
(* call that is running.                                                   *)
(***************************************************************************)
Top == stack[Len(stack)]

(***************************************************************************)
(* lines 23-24, 52-53, 63-64: renderer.update(board) when a renderer was   *)
(* given.  The renderer receives the board; n, the number of insert and    *)
(* remove calls made before the update, records when it was called.        *)
(***************************************************************************)
Notified(b, n) ==
  IF renderer
  THEN Append(updates, [filled_cells |-> b.filled_cells, after |-> n])
  ELSE updates

Running(f_pc) == stack # <<>> /\ Top.pc = f_pc

SetTop(f) == [stack EXCEPT ![Len(stack)] = f]

Pop == SubSeq(stack, 1, Len(stack) - 1)

Piece == puzzle.keys[Top.pi]

Transformation == transformations[Piece][Top.ti]

\* lines 23-33
Prune ==
  /\ Running("enter")
  /\ total_cells_needed(pieces) > total_cells_available(board)
  /\ stack' = Pop
  /\ result' = "None"
  /\ UNCHANGED <<puzzle, board, pieces, log>>
  /\ updates' = Notified(board, Len(log))
  /\ UNCHANGED renderer
  /\ UNCHANGED outsideSolver

\* lines 23-24, 35-39
BoardFull ==
  /\ Running("enter")
  /\ ~ (total_cells_needed(pieces) > total_cells_available(board))
  /\ find_first_empty_cell(board) = <<>>
  /\ stack' = Pop
  /\ result' = IF \A piece \in DOMAIN pieces : pieces[piece] = 0
               THEN "board" ELSE "None"
  /\ UNCHANGED <<puzzle, board, pieces, log>>
  /\ updates' = Notified(board, Len(log))
  /\ UNCHANGED renderer
  /\ UNCHANGED outsideSolver

\* lines 23-24, 35, 41, 43
Target ==
  /\ Running("enter")
  /\ ~ (total_cells_needed(pieces) > total_cells_available(board))
  /\ find_first_empty_cell(board) # <<>>
  /\ stack' = SetTop(Frame("loop", find_first_empty_cell(board)[1],
                           find_first_empty_cell(board)[2], 1, 0))
  /\ UNCHANGED <<puzzle, board, pieces, result, log>>
  /\ updates' = Notified(board, Len(log))
  /\ UNCHANGED renderer
  /\ UNCHANGED outsideSolver

\* lines 43-45: a piece with no copy left is passed over
SkipPiece ==
  /\ Running("loop") /\ Top.pi <= Len(puzzle.keys) /\ Top.ti = 0
  /\ pieces[Piece] = 0
  /\ stack' = SetTop([Top EXCEPT !.pi = @ + 1])
  /\ UNCHANGED <<puzzle, board, pieces, result, log>>
  /\ UNCHANGED <<renderer, updates>>
  /\ UNCHANGED outsideSolver

\* lines 43-47: the first transformation of the next piece
EnterPiece ==
  /\ Running("loop") /\ Top.pi <= Len(puzzle.keys) /\ Top.ti = 0
  /\ pieces[Piece] # 0
  /\ stack' = SetTop([Top EXCEPT !.ti = 1])
  /\ UNCHANGED <<puzzle, board, pieces, result, log>>
  /\ UNCHANGED <<renderer, updates>>
  /\ UNCHANGED outsideSolver

\* line 47: the transformations of the piece are used up
PieceDone ==
  /\ Running("loop") /\ Top.pi <= Len(puzzle.keys) /\ Top.ti > 0
  /\ Top.ti > Len(transformations[Piece])
  /\ stack' = SetTop([Top EXCEPT !.pi = @ + 1, !.ti = 0])
  /\ UNCHANGED <<puzzle, board, pieces, result, log>>
  /\ UNCHANGED <<renderer, updates>>
  /\ UNCHANGED outsideSolver

Reject_without_advance ==
  /\ Running("loop") /\ Top.pi <= Len(puzzle.keys) /\ Top.ti > 0
  /\ Top.ti <= Len(transformations[Piece])
  /\ ~ check_piece(board, Transformation, Top.row, Top.col)
  /\ stack' = SetTop([Top EXCEPT !.ti = @])
  /\ UNCHANGED <<puzzle, board, pieces, result, log>>
  /\ UNCHANGED <<renderer, updates>>
  /\ UNCHANGED outsideSolver

\* line 48: the transformation does not fit
Reject ==
  /\ Running("loop") /\ Top.pi <= Len(puzzle.keys) /\ Top.ti > 0
  /\ Top.ti <= Len(transformations[Piece])
  /\ ~ check_piece(board, Transformation, Top.row, Top.col)
  /\ stack' = SetTop([Top EXCEPT !.ti = @ + 1])
  /\ UNCHANGED <<puzzle, board, pieces, result, log>>
  /\ UNCHANGED <<renderer, updates>>
  /\ UNCHANGED outsideSolver

\* lines 48-55: the transformation fits, is inserted, and the search recurses
Place ==
  /\ Running("loop") /\ Top.pi <= Len(puzzle.keys) /\ Top.ti > 0
  /\ Top.ti <= Len(transformations[Piece])
  /\ check_piece(board, Transformation, Top.row, Top.col)
  /\ board' = insert_piece(board, Transformation, Top.row, Top.col)
  /\ pieces' = [pieces EXCEPT ![Piece] = @ - 1]
  /\ log' = Append(log, [op |-> "insert", piece |-> Piece,
                         transformation |-> Transformation,
                         row |-> Top.row, col |-> Top.col])
  /\ stack' = Append(SetTop([Top EXCEPT !.pc = "wait"]), EntryFrame)
  /\ result' = "pending"
  /\ UNCHANGED puzzle
  /\ updates' = Notified(board', Len(log'))
  /\ UNCHANGED renderer
  /\ UNCHANGED outsideSolver

\* lines 57-58: the recursive call found a solution
ReturnSolved ==
  /\ Running("wait") /\ result = "board"
  /\ stack' = Pop
  /\ UNCHANGED <<puzzle, board, pieces, result, log>>
  /\ UNCHANGED <<renderer, updates>>
  /\ UNCHANGED outsideSolver

Backtrack_count_not_restored ==
  /\ Running("wait") /\ result = "None"
  /\ board' = board_remove_piece(board, Transformation, Top.row, Top.col)
  /\ log' = Append(log, [op |-> "remove", piece |-> Piece,
                         transformation |-> Transformation,
                         row |-> Top.row, col |-> Top.col])
  /\ stack' = SetTop([Top EXCEPT !.pc = "loop", !.ti = @ + 1])
  /\ result' = "pending"
  /\ UNCHANGED <<puzzle, pieces>>
  /\ updates' = Notified(board', Len(log'))
  /\ UNCHANGED renderer
  /\ UNCHANGED outsideSolver

Backtrack_board_not_restored ==
  /\ Running("wait") /\ result = "None"
  /\ pieces' = [pieces EXCEPT ![Piece] = @ + 1]
  /\ log' = Append(log, [op |-> "remove", piece |-> Piece,
                         transformation |-> Transformation,
                         row |-> Top.row, col |-> Top.col])
  /\ stack' = SetTop([Top EXCEPT !.pc = "loop", !.ti = @ + 1])
  /\ result' = "pending"
  /\ UNCHANGED <<puzzle, board>>
  /\ updates' = Notified(board, Len(log'))
  /\ UNCHANGED renderer
  /\ UNCHANGED outsideSolver

Backtrack_without_update ==
  /\ Running("wait") /\ result = "None"
  /\ board' = board_remove_piece(board, Transformation, Top.row, Top.col)
  /\ pieces' = [pieces EXCEPT ![Piece] = @ + 1]
  /\ log' = Append(log, [op |-> "remove", piece |-> Piece,
                         transformation |-> Transformation,
                         row |-> Top.row, col |-> Top.col])
  /\ stack' = SetTop([Top EXCEPT !.pc = "loop", !.ti = @ + 1])
  /\ result' = "pending"
  /\ UNCHANGED <<puzzle, renderer, updates>>
  /\ UNCHANGED outsideSolver

\* lines 60-64: the recursive call failed; the placement is undone
Backtrack ==
  /\ Running("wait") /\ result = "None"
  /\ board' = board_remove_piece(board, Transformation, Top.row, Top.col)
  /\ pieces' = [pieces EXCEPT ![Piece] = @ + 1]
  /\ log' = Append(log, [op |-> "remove", piece |-> Piece,
                         transformation |-> Transformation,
                         row |-> Top.row, col |-> Top.col])
  /\ stack' = SetTop([Top EXCEPT !.pc = "loop", !.ti = @ + 1])
  /\ result' = "pending"
  /\ UNCHANGED puzzle
  /\ updates' = Notified(board', Len(log'))
  /\ UNCHANGED renderer
  /\ UNCHANGED outsideSolver

\* line 66: every piece and transformation was tried
Exhausted ==
  /\ Running("loop") /\ Top.pi > Len(puzzle.keys)
  /\ stack' = Pop
  /\ result' = "None"
  /\ UNCHANGED <<puzzle, board, pieces, log>>
  /\ UNCHANGED <<renderer, updates>>
  /\ UNCHANGED outsideSolver

NextSolver ==
  \/ Prune
  \/ BoardFull
  \/ Target
  \/ SkipPiece
  \/ EnterPiece
  \/ PieceDone
  \/ Reject
  \/ Place
  \/ ReturnSolved
  \/ Backtrack
  \/ Exhausted

(***************************************************************************)
(* PuzzleState (src/models/puzzle_state.py): a GameBoard, the roster, the  *)
(* placed and the available pieces, the operation log and the placement    *)
(* index.  Its board is the GameBoard of the variables above.              *)
(***************************************************************************)

(***************************************************************************)
(* Bounds of the PuzzleState specification: cells of its board, entries of *)
(* the operation log.                                                      *)
(***************************************************************************)
MaxStateCells == 3
MaxOps == 4

(***************************************************************************)
(* PuzzlePiece values: id, shape and color, compared field by field        *)
(* (PuzzlePiece.__eq__).  PB's only cell is off its anchor; PAr is PA      *)
(* under the id rotate() gives the rotated piece.                          *)
(***************************************************************************)
PA == [id |-> "A", shape |-> {<<0, 0>>}, color |-> "red"]
PB == [id |-> "B", shape |-> {<<0, 1>>}, color |-> "red"]
PD == [id |-> "D", shape |-> {<<0, 0>>, <<0, 1>>}, color |-> "red"]
PAr == [id |-> "A-rot90", shape |-> {<<0, 0>>}, color |-> "red"]

StatePieces == {PA, PB, PD, PAr}

Rosters == {<<>>, <<PA>>, <<PA, PA>>, <<PB, PA>>, <<PD>>, <<PA, PD>>}

Max(S) == CHOOSE m \in S : \A n \in S : m >= n

\* PuzzlePiece.width and PuzzlePiece.height
piece_width(piece) ==
  Max({c[2] : c \in piece.shape}) - Min({c[2] : c \in piece.shape}) + 1

piece_height(piece) ==
  Max({c[1] : c \in piece.shape}) - Min({c[1] : c \in piece.shape}) + 1

(***************************************************************************)
(* Python list operations: x in q, q.remove(x) (the first equal element).  *)
(***************************************************************************)
piece_in(x, q) == \E i \in 1 .. Len(q) : q[i] = x

IndexOf(q, x) == Min({i \in 1 .. Len(q) : q[i] = x})

RemoveAll(q, x) == SelectSeq(q, LAMBDA y : y # x)

RemoveFirst(q, x) ==
  SubSeq(q, 1, IndexOf(q, x) - 1) \o SubSeq(q, IndexOf(q, x) + 1, Len(q))

(***************************************************************************)
(* PuzzleState.record_operation : one entry appended; the orientation is   *)
(* given for placements only.                                              *)
(***************************************************************************)
PlaceEntry(piece, position) ==
  [operation |-> "place", piece_id |-> piece.id, position |-> position,
   orientation |-> [shape |-> piece.shape, width |-> piece_width(piece),
                    height |-> piece_height(piece)]]

RemoveEntry_as_place(piece, position) ==
  [operation |-> "place", piece_id |-> piece.id, position |-> position]

RemoveEntry(piece, position) ==
  [operation |-> "remove", piece_id |-> piece.id, position |-> position]

record_operation_overwrite(history, entry) ==
  IF history = <<>> THEN <<entry>>
  ELSE [history EXCEPT ![Len(history)] = entry]

record_operation(history, entry) == Append(history, entry)

(***************************************************************************)
(* PuzzleState.get_statistics : the numbers of "place" and of "remove"     *)
(* entries of the history and the lengths of the two piece lists.          *)
(***************************************************************************)
get_statistics(history, placed, available) ==
  [placements |->
     Cardinality({i \in 1 .. Len(history) : history[i].operation = "place"}),
   removals |->
     Cardinality({i \in 1 .. Len(history) : history[i].operation = "remove"}),
   backtracks |->
     Cardinality({i \in 1 .. Len(history) : history[i].operation = "remove"}),
   total_operations |-> Len(history),
   pieces_placed |-> Len(placed),
   pieces_remaining |-> Len(available)]

(***************************************************************************)
(* PuzzleState.remove_piece, lines 117-121: the first placed piece whose   *)
(* position equals the argument; 0 when there is none.                     *)
(***************************************************************************)
FindPlaced_first(placed, position) == IF placed = <<>> THEN 0 ELSE 1

FindPlaced(placed, position) ==
  IF \E i \in 1 .. Len(placed) : placed[i][2] = position
  THEN Min({i \in 1 .. Len(placed) : placed[i][2] = position})
  ELSE 0

(***************************************************************************)
(* PuzzleState.is_solved                                                   *)
(***************************************************************************)
is_solved_pieces_only(placed, roster, cs) == Len(placed) = Len(roster)

is_solved(placed, roster, cs) == Len(placed) = Len(roster) /\ is_full(cs)

(***************************************************************************)
(* The PuzzleState specification: a client calls place_piece, remove_piece *)
(* and is_solved on a PuzzleState built over a new GameBoard.              *)
(***************************************************************************)
StateNoCall == [op |-> "none", piece |-> None, position |-> <<0, 0>>]

StatePositions == (0 .. height) \X (0 .. width)

InitState ==
  /\ width \in 1 .. MaxStateCells
  /\ height \in 1 .. MaxStateCells
  /\ width * height <= MaxStateCells
  /\ blocked_cells \in
       {b \in SUBSET BoardCells(width, height) : Cardinality(b) <= MaxBlocked}
  /\ cells = InitCells(width, height, blocked_cells)
  /\ state_pieces \in Rosters
  /\ placed_pieces = <<>>
  /\ available_pieces = state_pieces
  /\ backtrack_history = <<>>
  /\ current_index = 0
  /\ pc = "idle"
  /\ call = StateNoCall
  /\ ret = None

StateInvoke ==
  /\ pc = "idle"
  /\ Len(backtrack_history) < MaxOps
  /\ \E op \in {"place_piece", "remove_piece", "is_solved"},
        piece \in StatePieces, p \in StatePositions :
       call' = CASE op = "place_piece" ->
                      [op |-> op, piece |-> piece, position |-> p]
                 [] op = "remove_piece" ->
                      [StateNoCall EXCEPT !.op = op, !.position = p]
                 [] OTHER -> [StateNoCall EXCEPT !.op = op]
  /\ pc' = "called"
  /\ UNCHANGED <<width, height, cells, blocked_cells, ret>>
  /\ UNCHANGED stateVars
  /\ UNCHANGED outsideState

StateFields == <<cells, placed_pieces, available_pieces, backtrack_history,
                 current_index>>

StatePlacePiece ==
  /\ pc = "called" /\ call.op = "place_piece"
  /\ LET piece == call.piece
         position == call.position
         r == place_piece(cells, piece.id, piece.shape, position)
     IN  IF \/ ~ piece_in(piece, available_pieces)
            \/ ~ can_place_piece(cells, piece.shape, position)
            \/ r.ret = "ValueError"
         THEN ret' = "ValueError" /\ UNCHANGED StateFields
         ELSE /\ cells' = r.cells
              /\ placed_pieces' = Append(placed_pieces, <<piece, position>>)
              /\ available_pieces' = RemoveFirst(available_pieces, piece)
              /\ current_index' = current_index + 1
              /\ backtrack_history' =
                   record_operation(backtrack_history,
                                    PlaceEntry(piece, position))
              /\ ret' = "True"
  /\ pc' = "returned"
  /\ UNCHANGED <<width, height, blocked_cells, call, state_pieces>>
  /\ UNCHANGED outsideState

StateRemovePiece ==
  /\ pc = "called" /\ call.op = "remove_piece"
  /\ LET i == FindPlaced(placed_pieces, call.position)
     IN  IF i = 0
         THEN ret' = "ValueError" /\ UNCHANGED StateFields
         ELSE LET piece_to_remove == placed_pieces[i][1]
                  piece_position == placed_pieces[i][2]
                  r == remove_piece(cells, piece_to_remove.id,
                                    piece_to_remove.shape, piece_position)
              IN  IF r.ret = "ValueError"
                  THEN ret' = "ValueError" /\ UNCHANGED StateFields
                  ELSE /\ cells' = r.cells
                       /\ placed_pieces' =
                            RemoveFirst(placed_pieces,
                                        <<piece_to_remove, piece_position>>)
                       /\ available_pieces' =
                            Append(available_pieces, piece_to_remove)
                       /\ current_index' = current_index - 1
                       /\ backtrack_history' =
                            record_operation(
                              backtrack_history,
                              RemoveEntry(piece_to_remove, piece_position))
                       /\ ret' = "True"
  /\ pc' = "returned"
  /\ UNCHANGED <<width, height, blocked_cells, call, state_pieces>>
  /\ UNCHANGED outsideState

IsSolved ==
  /\ pc = "called" /\ call.op = "is_solved"
  /\ ret' = IF is_solved(placed_pieces, state_pieces, cells)
            THEN "True" ELSE "False"
  /\ pc' = "returned"
  /\ UNCHANGED <<width, height, cells, blocked_cells, call>>
  /\ UNCHANGED stateVars
  /\ UNCHANGED outsideState

StateResume ==
  /\ pc = "returned"
  /\ pc' = "idle"
  /\ call' = StateNoCall
  /\ ret' = None
  /\ UNCHANGED <<width, height, cells, blocked_cells>>
  /\ UNCHANGED stateVars
  /\ UNCHANGED outsideState

NextState ==
  \/ StateInvoke
  \/ StatePlacePiece
  \/ StateRemovePiece
  \/ IsSolved
  \/ StateResume

(***************************************************************************)
(* PuzzlePiece (src/models/piece.py) and the contiguity test it delegates  *)
(* to (src/logic/validator.py).  Shapes are sets of (row, col) pairs.      *)
(***************************************************************************)

(***************************************************************************)
(* Bounds of the PuzzlePiece specification: the largest coordinate and the *)
(* largest number of cells of a shape given to the constructor.            *)
(***************************************************************************)
MaxCoord == 2
MaxShapeCells == 4

(***************************************************************************)
(* validator.is_contiguous : a depth-first walk from one cell of the       *)
(* shape, the stack a list whose last element is popped; the shape is      *)
(* contiguous when the walk visits all of it.  The walk starts at          *)
(* next(iter(shape)), which may be any cell.                               *)
(***************************************************************************)
Neighbors_with_diagonals(current) ==
  <<<<current[1] - 1, current[2]>>, <<current[1] + 1, current[2]>>,
    <<current[1], current[2] - 1>>, <<current[1], current[2] + 1>>,
    <<current[1] - 1, current[2] - 1>>, <<current[1] + 1, current[2] + 1>>,
    <<current[1] - 1, current[2] + 1>>, <<current[1] + 1, current[2] - 1>>>>

Neighbors(current) ==
  <<<<current[1] - 1, current[2]>>, <<current[1] + 1, current[2]>>,
    <<current[1], current[2] - 1>>, <<current[1], current[2] + 1>>>>

RECURSIVE Visit(_, _, _)
Visit(cs, visited, stk) ==
  IF stk = <<>> THEN visited
  ELSE IF stk[Len(stk)] \in visited
       THEN Visit(cs, visited, SubSeq(stk, 1, Len(stk) - 1))
       ELSE Visit(cs, visited \cup {stk[Len(stk)]},
                  SubSeq(stk, 1, Len(stk) - 1) \o
                    SelectSeq(Neighbors(stk[Len(stk)]),
                              LAMBDA n : n \in cs /\
                                         n \notin visited \cup {stk[Len(stk)]}))

is_contiguous(cs, start) ==
  IF cs = {} THEN TRUE
  ELSE Cardinality(Visit(cs, {}, <<start>>)) = Cardinality(cs)

(***************************************************************************)
(* PuzzlePiece._rotate_shape by 90 degrees, PuzzlePiece._flip_shape on the *)
(* horizontal axis and PuzzlePiece.get_normalized_shape.                   *)
(***************************************************************************)
get_normalized_shape(cs) ==
  LET min_row == Min({c[1] : c \in cs})
      min_col == Min({c[2] : c \in cs})
  IN  {<<c[1] - min_row, c[2] - min_col>> : c \in cs}

piece_rotate_shape(cs) ==
  get_normalized_shape({<<c[2], 0 - c[1]>> : c \in cs})

piece_flip_shape(cs) ==
  get_normalized_shape({<<c[1], 0 - c[2]>> : c \in cs})

(***************************************************************************)
(* PuzzlePiece._compute_all_orientations : the four rotations, each        *)
(* followed by its flip, then the first of every group whose normalized    *)
(* shapes are equal.  The first rotation is the shape as it was given.     *)
(***************************************************************************)
Orientation(suffix, cs) == [id |-> suffix, shape |-> cs]

eight_orientations(cs) ==
  LET r0 == cs
      r1 == piece_rotate_shape(r0)
      r2 == piece_rotate_shape(r1)
      r3 == piece_rotate_shape(r2)
  IN  <<Orientation("-rot0", r0), Orientation("-rot0fh", piece_flip_shape(r0)),
        Orientation("-rot90", r1), Orientation("-rot90fh", piece_flip_shape(r1)),
        Orientation("-rot180", r2),
        Orientation("-rot180fh", piece_flip_shape(r2)),
        Orientation("-rot270", r3),
        Orientation("-rot270fh", piece_flip_shape(r3))>>

RECURSIVE unique_orientations(_, _, _)
unique_orientations(orientations, i, unique) ==
  IF i > Len(orientations) THEN unique
  ELSE IF \E j \in 1 .. Len(unique) :
            get_normalized_shape(unique[j].shape) =
              get_normalized_shape(orientations[i].shape)
       THEN unique_orientations(orientations, i + 1, unique)
       ELSE unique_orientations(orientations, i + 1,
                                Append(unique, orientations[i]))

compute_all_orientations(cs) ==
  unique_orientations(eight_orientations(cs), 1, <<>>)

(***************************************************************************)
(* PuzzlePiece.__init__ : ValueError for an empty or non-contiguous shape, *)
(* otherwise the piece with its precomputed orientations.                  *)
(***************************************************************************)
NoPiece == [status |-> "none"]

PuzzlePiece(cs, start) ==
  IF cs = {} THEN [status |-> "ValueError", message |-> "empty"]
  ELSE IF ~ is_contiguous(cs, start)
       THEN [status |-> "ValueError", message |-> "not contiguous"]
       ELSE [status |-> "ok", shape |-> cs,
             precomputed_orientations |-> compute_all_orientations(cs)]

(***************************************************************************)
(* The PuzzlePiece specification: the constructor is called once on a      *)
(* shape of at most MaxShapeCells cells with coordinates 0 .. MaxCoord.    *)
(***************************************************************************)
GivenShapes ==
  {cs \in SUBSET ((0 .. MaxCoord) \X (0 .. MaxCoord)) :
     Cardinality(cs) <= MaxShapeCells}

InitPiece ==
  /\ arg_shape \in GivenShapes
  /\ made = NoPiece
  /\ piece_pc = "called"

Construct ==
  /\ piece_pc = "called"
  /\ \E start \in arg_shape \cup {<<0, 0>>} :
       /\ arg_shape # {} => start \in arg_shape
       /\ made' = PuzzlePiece(arg_shape, start)
  /\ piece_pc' = "returned"
  /\ UNCHANGED arg_shape
  /\ UNCHANGED outsidePiece

NextPiece ==
  \/ Construct

PieceIdle ==
  /\ arg_shape = {}
  /\ made = NoPiece
  /\ piece_pc = "idle"

(***************************************************************************)
(* Rotation and flip of shapes (src/logic/rotation.py), the rotate, flip   *)
(* and get_all_orientations methods of PuzzlePiece (src/models/piece.py)   *)
(* and validator.find_connected_components.                                *)
(***************************************************************************)

\* rotation._normalize_shape
normalize_shape(cs) ==
  IF cs = {} THEN {}
  ELSE LET min_row == Min({c[1] : c \in cs})
           min_col == Min({c[2] : c \in cs})
       IN  {<<c[1] - min_row, c[2] - min_col>> : c \in cs}

\* rotation.rotate_shape, for degrees a multiple of 90; other degrees raise.
\* A rotation by 0 degrees returns a copy of the shape as it was given.
rotate_shape_quarter_turns_only(cs, degrees) ==
  IF degrees % 360 = 0 THEN cs
  ELSE normalize_shape({<<c[2], 0 - c[1]>> : c \in cs})

rotate_shape(cs, degrees) ==
  IF degrees % 360 = 0 THEN cs
  ELSE IF degrees % 360 = 90
       THEN normalize_shape({<<c[2], 0 - c[1]>> : c \in cs})
       ELSE IF degrees % 360 = 180
            THEN normalize_shape({<<0 - c[1], 0 - c[2]>> : c \in cs})
            ELSE normalize_shape({<<0 - c[2], c[1]>> : c \in cs})

\* rotation.flip_shape
flip_shape(cs, axis) ==
  IF axis = "horizontal"
  THEN normalize_shape({<<c[1], 0 - c[2]>> : c \in cs})
  ELSE normalize_shape({<<0 - c[1], c[2]>> : c \in cs})

\* The first shape of every group of shapes with one normalized form.
RECURSIVE unique_shapes(_, _, _)
unique_shapes(orientations, i, unique) ==
  IF i > Len(orientations) THEN unique
  ELSE IF \E j \in 1 .. Len(unique) :
            normalize_shape(unique[j]) = normalize_shape(orientations[i])
       THEN unique_shapes(orientations, i + 1, unique)
       ELSE unique_shapes(orientations, i + 1,
                          Append(unique, orientations[i]))

FourTurns == <<0, 90, 180, 270>>

\* rotation.get_all_orientations : no flip, horizontal, vertical, each
\* rotated by 0, 90, 180 and 270 degrees.
get_all_orientations_without_flips(cs) ==
  unique_shapes([i \in 1 .. 4 |-> rotate_shape(cs, FourTurns[i])], 1, <<>>)

get_all_orientations(cs) ==
  unique_shapes(
    [i \in 1 .. 4 |-> rotate_shape(cs, FourTurns[i])] \o
    [i \in 1 .. 4 |-> rotate_shape(flip_shape(cs, "horizontal"),
                                   FourTurns[i])] \o
    [i \in 1 .. 4 |-> rotate_shape(flip_shape(cs, "vertical"),
                                   FourTurns[i])],
    1, <<>>)

\* PuzzlePiece.rotate and PuzzlePiece.flip, as the shape of the new piece.
piece_rotate(cs, degrees) ==
  IF degrees % 360 = 0 THEN cs
  ELSE IF degrees % 360 = 90
       THEN get_normalized_shape({<<c[2], 0 - c[1]>> : c \in cs})
       ELSE IF degrees % 360 = 180
            THEN get_normalized_shape({<<0 - c[1], 0 - c[2]>> : c \in cs})
            ELSE get_normalized_shape({<<0 - c[2], c[1]>> : c \in cs})

piece_flip(cs, axis) ==
  IF axis = "horizontal"
  THEN get_normalized_shape({<<c[1], 0 - c[2]>> : c \in cs})
  ELSE get_normalized_shape({<<0 - c[1], c[2]>> : c \in cs})

\* PuzzlePiece.get_all_orientations
piece_get_all_orientations(cs) ==
  unique_shapes(
    [i \in 1 .. 4 |-> piece_rotate(cs, FourTurns[i])] \o
    [i \in 1 .. 4 |-> piece_rotate(piece_flip(cs, "horizontal"),
                                   FourTurns[i])] \o
    [i \in 1 .. 4 |-> piece_rotate(piece_flip(cs, "vertical"),
                                   FourTurns[i])],
    1, <<>>)

(***************************************************************************)
(* validator.find_connected_components : the cells of the shape are taken  *)
(* in the set's iteration order, which may be any order; each cell not yet *)
(* visited starts a walk that collects its component.  The result is the   *)
(* set of lists the function can return.                                   *)
(***************************************************************************)
RECURSIVE component_lists(_, _, _, _)
component_lists(cs, remaining, visited, components) ==
  IF remaining = {} THEN {components}
  ELSE UNION
         {IF cell \in visited
          THEN component_lists(cs, remaining \ {cell}, visited, components)
          ELSE component_lists(
                 cs, remaining \ {cell}, Visit(cs, visited, <<cell>>),
                 Append(components, Visit(cs, visited, <<cell>>) \ visited))
          : cell \in remaining}

find_connected_components_one_walk(cs) ==
  IF cs = {} THEN {<<>>}
  ELSE {<<Visit(cs, {}, <<cell>>)>> : cell \in cs}

find_connected_components(cs) ==
  IF cs = {} THEN {<<>>} ELSE component_lists(cs, cs, {}, <<>>)


(***************************************************************************)
(* The shape-function specification: one function is called once on a      *)
(* shape.  The shapes are those of the PuzzlePiece specification and the   *)
(* same shapes moved away from the origin, into negative rows; the degrees *)
(* include negative values, values above 360 and values that are not       *)
(* multiples of 90.                                                        *)
(***************************************************************************)
Shifted(cs, d_row, d_col) == {<<c[1] + d_row, c[2] + d_col>> : c \in cs}

AnyShapes == GivenShapes \cup {Shifted(cs, -1, 1) : cs \in GivenShapes}

Degrees == {-180, -90, -45, 0, 45, 90, 180, 270, 360, 450}

QuarterTurns == {0, 90, 180, 270}

InitShape ==
  /\ arg_shape \in AnyShapes
  /\ made = NoPiece
  /\ piece_pc = "called"

\* rotation.rotate_shape, lines 23-24 the check of the degrees.
RotateShape ==
  /\ piece_pc = "called"
  /\ \E degrees \in Degrees :
       made' = IF degrees % 90 # 0
               THEN [status |-> "ValueError", op |-> "rotate_shape",
                     degrees |-> degrees]
               ELSE [status |-> "ok", op |-> "rotate_shape",
                     degrees |-> degrees,
                     value |-> rotate_shape(arg_shape, degrees)]
  /\ piece_pc' = "returned"
  /\ UNCHANGED arg_shape
  /\ UNCHANGED outsidePiece

\* Two calls of rotation.rotate_shape, the second on the result of the first.
RotateTwice ==
  /\ piece_pc = "called"
  /\ \E a \in QuarterTurns, b \in QuarterTurns :
       made' = [status |-> "ok", op |-> "rotate_twice", a |-> a, b |-> b,
                value |-> rotate_shape(rotate_shape(arg_shape, a), b)]
  /\ piece_pc' = "returned"
  /\ UNCHANGED arg_shape
  /\ UNCHANGED outsidePiece

\* rotation.get_all_orientations
GetAllOrientations ==
  /\ piece_pc = "called"
  /\ made' = [status |-> "ok", op |-> "get_all_orientations",
              value |-> get_all_orientations(arg_shape)]
  /\ piece_pc' = "returned"
  /\ UNCHANGED arg_shape
  /\ UNCHANGED outsidePiece

\* PuzzlePiece(...).rotate(degrees) : the constructor, then the method.
PieceRotate ==
  /\ piece_pc = "called"
  /\ \E start \in arg_shape \cup {<<0, 0>>}, degrees \in Degrees :
       /\ arg_shape # {} => start \in arg_shape
       /\ made' = IF PuzzlePiece(arg_shape, start).status # "ok"
                     \/ degrees % 90 # 0
                  THEN [status |-> "ValueError", op |-> "PuzzlePiece.rotate",
                        degrees |-> degrees]
                  ELSE [status |-> "ok", op |-> "PuzzlePiece.rotate",
                        degrees |-> degrees,
                        value |-> piece_rotate(arg_shape, degrees)]
  /\ piece_pc' = "returned"
  /\ UNCHANGED arg_shape
  /\ UNCHANGED outsidePiece

\* PuzzlePiece(...).get_all_orientations() : the constructor, which
\* precomputes its orientations, then the method.
PieceGetAllOrientations ==
  /\ piece_pc = "called"
  /\ \E start \in arg_shape \cup {<<0, 0>>} :
       /\ arg_shape # {} => start \in arg_shape
       /\ made' = IF PuzzlePiece(arg_shape, start).status # "ok"
                  THEN [status |-> "ValueError",
                        op |-> "PuzzlePiece.get_all_orientations"]
                  ELSE [status |-> "ok",
                        op |-> "PuzzlePiece.get_all_orientations",
                        precomputed_orientations |->
                          PuzzlePiece(arg_shape, start).precomputed_orientations,
                        value |-> piece_get_all_orientations(arg_shape)]
  /\ piece_pc' = "returned"
  /\ UNCHANGED arg_shape
  /\ UNCHANGED outsidePiece

\* validator.find_connected_components
FindConnectedComponents ==
  /\ piece_pc = "called"
  /\ \E components \in find_connected_components(arg_shape) :
       made' = [status |-> "ok", op |-> "find_connected_components",
                value |-> components]
  /\ piece_pc' = "returned"
  /\ UNCHANGED arg_shape
  /\ UNCHANGED outsidePiece

\* validator.is_contiguous
IsContiguous ==
  /\ piece_pc = "called"
  /\ \E start \in arg_shape \cup {<<0, 0>>} :
       /\ arg_shape # {} => start \in arg_shape
       /\ made' = [status |-> "ok", op |-> "is_contiguous",
                   value |-> is_contiguous(arg_shape, start)]
  /\ piece_pc' = "returned"
  /\ UNCHANGED arg_shape
  /\ UNCHANGED outsidePiece

NextShape ==
  \/ RotateShape
  \/ RotateTwice
  \/ GetAllOrientations
  \/ PieceRotate
  \/ PieceGetAllOrientations
  \/ FindConnectedComponents
  \/ IsContiguous

(***************************************************************************)
(* The PuzzleBoard specification: check_piece, insert_piece or             *)
(* remove_piece is called once on a 5x5 board, empty or with cells filled  *)
(* in advance, with a transformation given as (x, y) cells.  insert_piece  *)
(* raises PiecePlacementError where check_piece is false and remove_piece  *)
(* raises PieceRemovalError unless every cell of the piece is filled.      *)
(***************************************************************************)
AnchorSize == 5

AnchorTransformations ==
  { {<<1, 0>>, <<2, 0>>, <<0, 1>>},
    {<<0, 0>>, <<0, 1>>, <<1, 1>>},
    {<<0, 0>>, <<1, 0>>, <<0, 1>>},
    {<<0, 0>>, <<1, 0>>, <<2, 0>>},
    {<<0, 0>>, <<0, 1>>, <<0, 2>>},
    {<<0, 0>>, <<5, 0>>, <<0, 5>>},
    {<<1, 1>>},
    {<<1, 0>>, <<0, 1>>, <<1, 1>>, <<2, 1>>} }

AnchorFilled ==
  { {}, {<<0, 0>>}, {<<1, 1>>}, {<<1, 1>>, <<2, 1>>},
    {<<2, 1>>, <<3, 1>>, <<1, 2>>}, {<<2, 2>>, <<2, 3>>, <<3, 3>>},
    {<<0, 0>>, <<1, 0>>, <<0, 1>>, <<4, 4>>} }

AnchorPositions == -1 .. AnchorSize

SolverRestIdle ==
  /\ puzzle = [width |-> 1, height |-> 1, filled_cells |-> {},
               keys |-> <<>>, counts |-> <<>>]
  /\ pieces = <<>>
  /\ stack = <<>>
  /\ result = "pending"
  /\ log = <<>>
  /\ renderer = FALSE
  /\ updates = <<>>

InitAnchor ==
  /\ \E f \in AnchorFilled :
       board = [width |-> AnchorSize, height |-> AnchorSize,
                filled_cells |-> f]
  /\ SolverRestIdle
  /\ arg_shape \in AnchorTransformations
  /\ made = NoPiece
  /\ piece_pc = "called"

AnchorFrame == <<width, height, cells, blocked_cells, pc, call, ret,
                 puzzle, pieces, stack, result, log, renderer, updates,
                 stateVars, arg_shape>>

BoardCheckPiece ==
  /\ piece_pc = "called"
  /\ \E row \in AnchorPositions, col \in AnchorPositions :
       made' = [status |-> "ok", op |-> "check_piece", row |-> row,
                col |-> col, value |-> check_piece(board, arg_shape, row, col)]
  /\ piece_pc' = "returned"
  /\ UNCHANGED board
  /\ UNCHANGED AnchorFrame

BoardInsertPiece ==
  /\ piece_pc = "called"
  /\ \E row \in AnchorPositions, col \in AnchorPositions :
       IF check_piece(board, arg_shape, row, col)
       THEN /\ board' = insert_piece(board, arg_shape, row, col)
            /\ made' = [status |-> "ok", op |-> "insert_piece",
                        row |-> row, col |-> col]
       ELSE /\ board' = board
            /\ made' = [status |-> "PiecePlacementError",
                        op |-> "insert_piece", row |-> row, col |-> col]
  /\ piece_pc' = "returned"
  /\ UNCHANGED AnchorFrame

BoardRemovePiece ==
  /\ piece_pc = "called"
  /\ \E row \in AnchorPositions, col \in AnchorPositions :
       IF piece_cells(arg_shape, row, col) \subseteq board.filled_cells
       THEN /\ board' = board_remove_piece(board, arg_shape, row, col)
            /\ made' = [status |-> "ok", op |-> "remove_piece",
                        row |-> row, col |-> col]
       ELSE /\ board' = board
            /\ made' = [status |-> "PieceRemovalError",
                        op |-> "remove_piece", row |-> row, col |-> col]
  /\ piece_pc' = "returned"
  /\ UNCHANGED AnchorFrame

NextAnchor ==
  \/ BoardCheckPiece
  \/ BoardInsertPiece
  \/ BoardRemovePiece

(***************************************************************************)
(* validator.validate_piece_placement, called with the board's size and    *)
(* GameBoard.get_occupied_cells().  The errors are returned as a list in   *)
(* the iteration order of the shape; a cell gives at most one error, so    *)
(* the list is modelled by the set of its errors.                          *)
(***************************************************************************)
get_occupied_cells(cs) == {pos \in DOMAIN cs : cs[pos] # None}

validate_piece_placement(piece_shape, board_width, board_height, position, occupied_cells) ==
  {[type |-> "OUT_OF_BOUNDS", cell |-> c] :
     c \in {d \in Covered(piece_shape, position) :
              ~ (0 <= d[1] /\ d[1] < board_height /\
                 0 <= d[2] /\ d[2] < board_width)}}
  \cup
  {[type |-> "OVERLAP", cell |-> c] :
     c \in Covered(piece_shape, position) \cap occupied_cells}

InvokeValidator ==
  /\ pc = "idle"
  /\ \E s \in Shapes, p \in Positions :
       call' = [NoCall EXCEPT !.op = "validate_piece_placement",
                              !.piece_shape = s, !.position = p]
  /\ pc' = "called"
  /\ UNCHANGED <<width, height, cells, blocked_cells, ret>>
  /\ UNCHANGED outsideBoard

ValidatePiecePlacement ==
  /\ pc = "called" /\ call.op = "validate_piece_placement"
  /\ ret' = validate_piece_placement(call.piece_shape, width, height,
                                     call.position, get_occupied_cells(cells))
  /\ pc' = "returned"
  /\ UNCHANGED <<width, height, cells, blocked_cells, call>>
  /\ UNCHANGED outsideBoard

NextValidator ==
  \/ NextBoard
  \/ InvokeValidator
  \/ ValidatePiecePlacement

(***************************************************************************)
(* Spec: the GameBoard and its client; the solver does not run.            *)
(* SpecSolver: one run of solve_puzzle; the GameBoard is not used.         *)
(***************************************************************************)
SolverIdle ==
  /\ puzzle = [width |-> 1, height |-> 1, filled_cells |-> {},
               keys |-> <<>>, counts |-> <<>>]
  /\ board = IdleBoard
  /\ pieces = <<>>
  /\ stack = <<>>
  /\ result = "pending"
  /\ log = <<>>
  /\ renderer = FALSE
  /\ updates = <<>>

BoardIdle ==
  /\ width = 1
  /\ height = 1
  /\ blocked_cells = {}
  /\ cells = InitCells(1, 1, {})
  /\ pc = "idle"
  /\ call = NoCall
  /\ ret = None

StateIdle ==
  /\ state_pieces = <<>>
  /\ placed_pieces = <<>>
  /\ available_pieces = <<>>
  /\ backtrack_history = <<>>
  /\ current_index = 0

Init == InitBoard /\ SolverIdle /\ StateIdle /\ PieceIdle

Next == NextBoard

Spec == Init /\ [][Next]_vars

SolverInit == InitSolver /\ BoardIdle /\ StateIdle /\ PieceIdle

SolverNext == NextSolver

SpecSolver == SolverInit /\ [][SolverNext]_vars

\* solve_puzzle is sequential code that runs to its return: a step that can
\* be taken is taken.
SpecSolverFair == SpecSolver /\ WF_vars(SolverNext)

StateInit == InitState /\ SolverIdle /\ PieceIdle

StateNext == NextState

SpecState == StateInit /\ [][StateNext]_vars

PieceInit == InitPiece /\ BoardIdle /\ SolverIdle /\ StateIdle

PieceNext == NextPiece

SpecPiece == PieceInit /\ [][PieceNext]_vars

ShapeInit == InitShape /\ BoardIdle /\ SolverIdle /\ StateIdle

ShapeNext == NextShape

SpecShape == ShapeInit /\ [][ShapeNext]_vars

AnchorInit == InitAnchor /\ BoardIdle /\ StateIdle

AnchorNext == NextAnchor

SpecAnchor == AnchorInit /\ [][AnchorNext]_vars

ValidatorNext == NextValidator

SpecValidator == Init /\ [][ValidatorNext]_vars

(***************************************************************************)
(* Claims about the GameBoard, checked under Spec.                         *)
(***************************************************************************)
BoardUnchanged == UNCHANGED <<width, height, cells, blocked_cells>>

\* The cells a shape covers at a position, and what the board documents
\* about them, stated on the sets rather than by the methods' loops.
InBoard(c) == c[1] \in 0 .. height - 1 /\ c[2] \in 0 .. width - 1

HoldsPiece(cs, c) == c \in DOMAIN cs /\ cs[c] \in PieceIds

Placeable(cs, piece_shape, position) ==
  \A off \in piece_shape :
    LET c == <<position[1] + off[1], position[2] + off[2]>>
    IN  InBoard(c) /\ c \notin blocked_cells /\ ~ HoldsPiece(cs, c)

Calling(op) == pc = "called" /\ call.op = op

Returned(op, r) == pc = "returned" /\ call.op = op /\ ret = r

\* C5: can_place_piece(shape, position) returns True iff every cell of the
\* shape translated by position is inside [0,H)x[0,W), is not in the blocked
\* set and holds no piece; the call leaves the board as it was.
C5_CanPlaceIffFree ==
  [][Calling("can_place_piece") =>
       /\ ret' \in {"True", "False"}
       /\ (ret' = "True") <=> Placeable(cells, call.piece_shape, call.position)
       /\ BoardUnchanged]_vars

C5_Witness ==
  /\ Returned("can_place_piece", "False")
  /\ call.piece_shape # {}
  /\ \/ call.position[1] < 0
     \/ call.position[2] < 0
     \/ \E c \in Covered(call.piece_shape, call.position) : c[2] >= width
  /\ \E c \in DOMAIN cells : HoldsPiece(cells, c)

\* C6: place_piece raises and leaves the cell mapping unchanged whenever
\* can_place_piece refuses; otherwise exactly the covered cells become
\* piece_id, every other cell keeps its content, and no cell that held a
\* piece is overwritten.
C6_PlaceChecked ==
  [][Calling("place_piece") =>
       /\ BoardCells(width, height) = DOMAIN cells'
       /\ IF can_place_piece(cells, call.piece_shape, call.position)
          THEN /\ ret' = "True"
               /\ \A c \in DOMAIN cells :
                    cells'[c] =
                      IF c \in Covered(call.piece_shape, call.position)
                      THEN call.piece_id ELSE cells[c]
               /\ \A c \in DOMAIN cells :
                    HoldsPiece(cells, c) => cells'[c] = cells[c]
          ELSE /\ ret' = "ValueError"
               /\ cells' = cells
       /\ UNCHANGED <<width, height, blocked_cells>>]_vars

C6_Witness ==
  /\ Returned("place_piece", "ValueError")
  /\ \E c \in Covered(call.piece_shape, call.position) : HoldsPiece(cells, c)

\* C7: remove_piece raises and leaves the board unchanged unless every
\* covered cell holds exactly piece_id; when it succeeds exactly the covered
\* cells become empty and every other cell keeps its content.
C7_RemoveChecked ==
  [][Calling("remove_piece") =>
       LET cov == Covered(call.piece_shape, call.position)
       IN  /\ DOMAIN cells' = DOMAIN cells
           /\ IF \A c \in cov : c \in DOMAIN cells /\ cells[c] = call.piece_id
              THEN /\ ret' = "True"
                   /\ \A c \in DOMAIN cells :
                        cells'[c] = IF c \in cov THEN None ELSE cells[c]
              ELSE /\ ret' = "ValueError"
                   /\ cells' = cells
           /\ UNCHANGED <<width, height, blocked_cells>>]_vars

C7_Witness ==
  /\ Returned("remove_piece", "ValueError")
  /\ call.piece_shape # {}
  /\ \A c \in Covered(call.piece_shape, call.position) :
       HoldsPiece(cells, c) /\ cells[c] # call.piece_id

\* C8: a placement that place_piece accepts, followed by remove_piece with
\* the same piece_id, shape and position, gives back the cell mapping of
\* before the placement (blocked set and dimensions never change), and the
\* same placement is accepted again.
C8_PlaceRemoveRoundTrip ==
  [][(Calling("place_piece") /\ ret' = "True") =>
       LET back == remove_piece(cells', call.piece_id, call.piece_shape,
                                call.position)
       IN  /\ back.ret = "True"
           /\ back.cells = cells
           /\ UNCHANGED <<width, height, blocked_cells>>
           /\ place_piece(back.cells, call.piece_id, call.piece_shape,
                          call.position).ret = "True"]_vars

C8_Witness ==
  /\ Returned("place_piece", "True")
  /\ call.piece_shape # {}
  /\ blocked_cells # {}
  /\ \E c \in DOMAIN cells : HoldsPiece(cells, c) /\ cells[c] # call.piece_id

\* C9: after a successful place_piece of a non-empty shape, can_place_piece
\* of the same shape at the same position is False and filled_area has grown
\* by the number of cells of the shape.
C9_PlacedBlocksAndCounts ==
  [][(Calling("place_piece") /\ ret' = "True" /\ call.piece_shape # {}) =>
       /\ ~ can_place_piece(cells', call.piece_shape, call.position)
       /\ filled_area(cells') =
            filled_area(cells) + Cardinality(call.piece_shape)]_vars

C9_Witness ==
  /\ Returned("place_piece", "True")
  /\ call.piece_shape = {<<0, 0>>, <<1, 0>>, <<0, 1>>}
  /\ call.position = <<0, 0>>
  /\ blocked_cells = {}
  /\ filled_area(cells) = 3

\* C10 as stated: filled_area + empty_area + number of blocked cells equals
\* W*H in every reachable state.
C10_AreaWithBlockedTerm ==
  filled_area(cells) + empty_area(cells) + Cardinality(blocked_cells)
    = width * height

\* C10 as amended: filled_area + empty_area equals W*H in every reachable
\* state; the blocked cells are stored as occupied cells, so filled_area
\* already counts them.
C10_AreaAccounting ==
  filled_area(cells) + empty_area(cells) = width * height

C10_Witness ==
  /\ blocked_cells # {}
  /\ Returned("remove_piece", "True")
  /\ call.piece_shape # {}
  /\ \E c \in DOMAIN cells : HoldsPiece(cells, c)

CoversBlocked(piece_shape, position) ==
  Covered(piece_shape, position) \cap blocked_cells # {}

\* C11: blocked cells are permanent.  No operation changes the blocked set,
\* can_place_piece answers False for every shape and position that covers a
\* blocked cell, and no blocked cell ever holds a piece id, also after clear.
C11_BlockedPermanent ==
  /\ [][blocked_cells' = blocked_cells]_vars
  /\ [][(Calling("can_place_piece") /\
          CoversBlocked(call.piece_shape, call.position)) =>
          ret' = "False"]_vars
  /\ [](\A c \in blocked_cells : ~ HoldsPiece(cells, c))

\* A blocked cell that clear has emptied is refused by a later place_piece.
C11_Witness ==
  /\ Returned("place_piece", "ValueError")
  /\ \E c \in blocked_cells :
       /\ cells[c] = None
       /\ Covered(call.piece_shape, call.position) = {c}

NonBlocked == BoardCells(width, height) \ blocked_cells

\* C12: is_full() is true iff every non-blocked cell holds a piece, and
\* is_empty() is true iff no non-blocked cell holds a piece.
C12_FullEmptyPredicates ==
  /\ [][Calling("is_full") =>
          (ret' = "True" <=> \A c \in NonBlocked : HoldsPiece(cells, c))]_vars
  /\ [][Calling("is_empty") =>
          (ret' = "True" <=> \A c \in NonBlocked : ~ HoldsPiece(cells, c))]_vars

\* is_full() answers False although every non-blocked cell holds a piece.
C12_Witness ==
  /\ Returned("is_full", "False")
  /\ NonBlocked # {}
  /\ \A c \in NonBlocked : HoldsPiece(cells, c)

(***************************************************************************)
(* Claims about the solver, checked under SpecSolver.                      *)
(***************************************************************************)
Returned_(r) == stack = <<>> /\ result = r

AllCells == CellsOf(puzzle.width, puzzle.height)

\* The placements in force: every insert of the log that no later remove
\* took back.
RECURSIVE InForce(_)
InForce(l) ==
  IF l = <<>> THEN <<>>
  ELSE LET before == InForce(SubSeq(l, 1, Len(l) - 1))
           e == l[Len(l)]
       IN  IF e.op = "insert" THEN Append(before, e)
           ELSE SubSeq(before, 1, Len(before) - 1)

PlacedCells(e) == piece_cells(e.transformation, e.row, e.col)

CountOf(l, piece) == Cardinality({i \in 1 .. Len(l) : l[i].piece = piece})

\* C1: a returned board has no empty cell, every remaining count is zero,
\* every supplied piece is placed, and the placed pieces lie inside the
\* board, are pairwise disjoint and disjoint from the cells filled at the
\* start, so every cell empty at the start is covered by exactly one piece.
C1_Soundness ==
  Returned_("board") =>
    LET placed == InForce(log)
    IN  /\ board.filled_cells = AllCells
        /\ \A piece \in DOMAIN pieces :
             pieces[piece] = 0 /\ CountOf(placed, piece) = puzzle.counts[piece]
        /\ \A i \in 1 .. Len(placed) :
             /\ PlacedCells(placed[i]) \subseteq AllCells \ puzzle.filled_cells
             /\ placed[i].transformation
                  \in Range(transformations[placed[i].piece])
             /\ \A j \in 1 .. Len(placed) :
                  i # j => PlacedCells(placed[i]) \cap PlacedCells(placed[j]) = {}
        /\ \A c \in AllCells \ puzzle.filled_cells :
             \E i \in 1 .. Len(placed) : c \in PlacedCells(placed[i])

C1_Witness ==
  /\ Returned_("board")
  /\ puzzle.filled_cells # {}
  /\ Len(InForce(log)) >= 2
  /\ \E i \in 1 .. Len(log) : log[i].op = "remove"

\* Some arrangement of all the pieces, each in one of its transformations
\* and anywhere on the board, covers every empty cell exactly once.  The
\* search looks at one empty cell and lets every cell of every
\* transformation of every remaining piece cover it.
RECURSIVE TilingExists(_, _)
TilingExists(filled, counts) ==
  LET empty == AllCells \ filled
  IN  IF empty = {} THEN \A piece \in DOMAIN counts : counts[piece] = 0
      ELSE LET e == CHOOSE c \in empty : TRUE
           IN  \E piece \in DOMAIN counts :
                 /\ counts[piece] > 0
                 /\ \E t \in Range(transformations[piece]) :
                      \E a \in t :
                        LET covered ==
                              {<<c[1] - a[1] + e[1], c[2] - a[2] + e[2]>> :
                                 c \in t}
                        IN  /\ covered \subseteq empty
                            /\ TilingExists(filled \cup covered,
                                 [counts EXCEPT ![piece] = @ - 1])

\* C2: solve_puzzle returns a board if some arrangement of all the pieces
\* covers every empty cell exactly once, and None only when there is none.
C2_Completeness ==
  stack = <<>> =>
    /\ result \in {"board", "None"}
    /\ (result = "board") <=> TilingExists(puzzle.filled_cells, puzzle.counts)

C2_Witness ==
  /\ Returned_("board")
  /\ \E i \in 1 .. Len(log) :
       /\ log[i].op = "insert"
       /\ <<0, 0>> \notin log[i].transformation
  /\ \E i \in 1 .. Len(log) : log[i].op = "remove"

\* A run that ends None although the pieces' area equals the empty area.
C2_WitnessNone ==
  /\ Returned_("None")
  /\ total_cells_needed(puzzle.counts)
       = puzzle.width * puzzle.height - Cardinality(puzzle.filled_cells)
  /\ log # <<>>

\* The first empty cell in row-major order, stated on the set of empty
\* cells: no empty cell lies in a row above it or to its left in its row.
IsFirstEmpty(b, row, col) ==
  /\ <<col, row>> \in CellsOf(b.width, b.height) \ b.filled_cells
  /\ \A c \in CellsOf(b.width, b.height) \ b.filled_cells :
       c[2] > row \/ (c[2] = row /\ c[1] >= col)

Squares4x4 ==
  LET sq == {<<0, 0>>, <<1, 0>>, <<0, 1>>, <<1, 1>>}
      At(r, c) == [op |-> "insert", piece |-> "square", transformation |-> sq,
                   row |-> r, col |-> c]
  IN  <<At(0, 0), At(0, 2), At(2, 0), At(2, 2)>>

IsPrefix(a, b) == Len(a) <= Len(b) /\ SubSeq(b, 1, Len(a)) = a

Bit(b) == IF b THEN 1 ELSE 0

\* The number of solver steps that are possible in the current state.
SolverActions ==
  Bit(ENABLED Prune) + Bit(ENABLED BoardFull) + Bit(ENABLED Target) +
  Bit(ENABLED SkipPiece) + Bit(ENABLED EnterPiece) + Bit(ENABLED PieceDone) +
  Bit(ENABLED Reject) + Bit(ENABLED Place) + Bit(ENABLED ReturnSolved) +
  Bit(ENABLED Backtrack) + Bit(ENABLED Exhausted)

\* C3: every insertion is made at the first empty cell in row-major order;
\* on the empty 4x4 board with four squares the run is the four insertions
\* at (0,0), (0,2), (2,0), (2,2) and ends with a board; and in every state
\* at most one step of the solver is possible, so an input has one run.
C3_DeterministicOrder ==
  /\ [][log' # log /\ log'[Len(log')].op = "insert" =>
          IsFirstEmpty(board, log'[Len(log')].row, log'[Len(log')].col)]_vars
  /\ [](puzzle = Example4x4 =>
          /\ IsPrefix(log, Squares4x4)
          /\ stack = <<>> => (result = "board" /\ log = Squares4x4))
  /\ [](SolverActions <= 1)

C3_Witness ==
  /\ puzzle = Example4x4
  /\ Returned_("board")
  /\ log = Squares4x4

\* The area the remaining pieces need, from the base shapes.
NeededArea ==
  SumOver(DOMAIN pieces,
          [piece \in DOMAIN pieces |->
             Cardinality(BaseShape[piece]) * pieces[piece]])

\* C4: when at entry the cells the pieces need exceed the cells not yet
\* filled, the call returns None with no insertion, no removal and no
\* recursive call; the 5x5 board with pieces of area 26 gives None with an
\* empty log.
C4_AreaPrune ==
  /\ [][(Running("enter") /\
          NeededArea > Cardinality(AllCells \ board.filled_cells)) =>
          /\ stack' = Pop
          /\ result' = "None"
          /\ UNCHANGED <<board, pieces, log>>]_vars
  /\ [](puzzle = Example5x5 =>
          /\ log = <<>>
          /\ Len(stack) <= 1
          /\ stack = <<>> => result = "None")

C4_Witness ==
  /\ puzzle = Example5x5
  /\ NeededArea = 26
  /\ Returned_("None")
  /\ log = <<>>

(***************************************************************************)
(* solve_puzzle without a renderer, as the recursive function it is: the   *)
(* result, the board and the counts it leaves, and the insert_piece and    *)
(* remove_piece calls it makes, for the keys of the puzzle being solved.   *)
(***************************************************************************)
Outcome(res, b, ps, lg) ==
  [result |-> res, board |-> b, pieces |-> ps, log |-> lg]

LogEntry(op, piece, row, col, ti) ==
  [op |-> op, piece |-> piece, transformation |-> transformations[piece][ti],
   row |-> row, col |-> col]

RECURSIVE solve_puzzle(_, _)
RECURSIVE try_pieces(_, _, _, _, _)
RECURSIVE try_transformations(_, _, _, _, _, _)
RECURSIVE after_call(_, _, _, _, _)

\* lines 26-41
solve_puzzle(b, ps) ==
  IF total_cells_needed(ps) > total_cells_available(b)
  THEN Outcome("None", b, ps, <<>>)
  ELSE IF find_first_empty_cell(b) = <<>>
       THEN Outcome(IF \A piece \in DOMAIN ps : ps[piece] = 0
                    THEN "board" ELSE "None", b, ps, <<>>)
       ELSE try_pieces(b, ps, find_first_empty_cell(b)[1],
                       find_first_empty_cell(b)[2], 1)

\* lines 43-45, 66
try_pieces(b, ps, row, col, pi) ==
  IF pi > Len(puzzle.keys) THEN Outcome("None", b, ps, <<>>)
  ELSE IF ps[puzzle.keys[pi]] = 0 THEN try_pieces(b, ps, row, col, pi + 1)
       ELSE try_transformations(b, ps, row, col, pi, 1)

\* lines 47-55
try_transformations(b, ps, row, col, pi, ti) ==
  LET piece == puzzle.keys[pi]
  IN  IF ti > Len(transformations[piece])
      THEN try_pieces(b, ps, row, col, pi + 1)
      ELSE IF ~ check_piece(b, transformations[piece][ti], row, col)
           THEN try_transformations(b, ps, row, col, pi, ti + 1)
           ELSE after_call(
                  solve_puzzle(
                    insert_piece(b, transformations[piece][ti], row, col),
                    [ps EXCEPT ![piece] = @ - 1]),
                  row, col, pi, ti)

\* lines 57-61, then the next transformation
after_call(sub, row, col, pi, ti) ==
  LET piece == puzzle.keys[pi]
      inserted == <<LogEntry("insert", piece, row, col, ti)>>
      removed == <<LogEntry("remove", piece, row, col, ti)>>
  IN  IF sub.result # "None"
      THEN [sub EXCEPT !.log = inserted \o @]
      ELSE [try_transformations(
              board_remove_piece(sub.board, transformations[piece][ti],
                                 row, col),
              [sub.pieces EXCEPT ![piece] = @ + 1],
              row, col, pi, ti + 1)
            EXCEPT !.log = inserted \o sub.log \o removed \o @]

InitialBoard ==
  [width |-> puzzle.width, height |-> puzzle.height,
   filled_cells |-> puzzle.filled_cells]

\* The filled cells after the first k insert_piece / remove_piece calls.
RECURSIVE filled_after(_)
filled_after(k) ==
  IF k = 0 THEN puzzle.filled_cells
  ELSE IF log[k].op = "insert"
       THEN filled_after(k - 1) \cup
              piece_cells(log[k].transformation, log[k].row, log[k].col)
       ELSE filled_after(k - 1) \
              piece_cells(log[k].transformation, log[k].row, log[k].col)

\* C18: with a renderer, every insertion and every removal is followed,
\* before the next one, by an update that sees the board as that mutation
\* left it; the updates come in the order of the mutations; and the result
\* and the sequence of mutations are those of the search without a renderer.
C18_ObserverNotified ==
  /\ renderer =>
       \A k \in 1 .. Len(log) : \E i \in 1 .. Len(updates) : updates[i].after = k
  /\ \A i \in 1 .. Len(updates) :
       /\ updates[i].after \in 0 .. Len(log)
       /\ updates[i].filled_cells = filled_after(updates[i].after)
       /\ \A j \in 1 .. i : updates[j].after <= updates[i].after
  /\ ~ renderer => updates = <<>>
  /\ stack = <<>> =>
       /\ result = solve_puzzle(InitialBoard, puzzle.counts).result
       /\ log = solve_puzzle(InitialBoard, puzzle.counts).log

\* A search watched by a renderer that backtracked and then found a tiling.
C18_Witness ==
  /\ renderer
  /\ stack = <<>>
  /\ result = "board"
  /\ \E k \in 1 .. Len(log) : log[k].op = "remove"
  /\ Len(updates) > Len(log)

(***************************************************************************)
(* Claims about PuzzleState, checked under SpecState.                      *)
(***************************************************************************)
Count(q, x) == Cardinality({i \in 1 .. Len(q) : q[i] = x})

SameBag(q1, q2) ==
  /\ Len(q1) = Len(q2)
  /\ \A x \in Range(q1) \cup Range(q2) : Count(q1, x) = Count(q2, x)

PlacedList == [i \in 1 .. Len(placed_pieces) |-> placed_pieces[i][1]]

Last(q) == q[Len(q)]

StateUnchanged ==
  UNCHANGED <<width, height, cells, blocked_cells, stateVars>>

\* C13: the placed pieces together with the available pieces are the roster,
\* as multisets, in every state reached by successful and failed calls.
C13_RosterConservation ==
  SameBag(PlacedList \o available_pieces, state_pieces)

\* One copy of a piece that the roster holds twice is placed, the other is
\* available again after a removal.
C13_Witness ==
  /\ Returned("remove_piece", "True")
  /\ state_pieces = <<PA, PA>>
  /\ Len(placed_pieces) = 1
  /\ Len(available_pieces) = 1

\* C14: a successful place_piece or remove_piece appends exactly one entry
\* (operation, piece id, position; a placement also the orientation's shape,
\* width and height) and keeps the earlier entries; a failed call appends
\* nothing; no step ever shortens the log.
C14_LogAppendOnly ==
  /\ [][Calling("place_piece") =>
          IF ret' = "True"
          THEN backtrack_history' =
                 backtrack_history \o
                   <<[operation |-> "place", piece_id |-> call.piece.id,
                      position |-> call.position,
                      orientation |->
                        [shape |-> call.piece.shape,
                         width |-> Cardinality({c[2] : c \in call.piece.shape}),
                         height |->
                           Cardinality({c[1] : c \in call.piece.shape})]]>>
          ELSE backtrack_history' = backtrack_history]_vars
  /\ [][Calling("remove_piece") =>
          IF ret' = "True"
          THEN /\ Len(backtrack_history') = Len(backtrack_history) + 1
               /\ IsPrefix(backtrack_history, backtrack_history')
               /\ DOMAIN Last(backtrack_history') =
                    {"operation", "piece_id", "position"}
               /\ Last(backtrack_history').operation = "remove"
               /\ Last(backtrack_history').position = call.position
               /\ \E i \in 1 .. Len(placed_pieces) :
                    /\ placed_pieces[i][2] = call.position
                    /\ placed_pieces[i][1].id =
                         Last(backtrack_history').piece_id
          ELSE backtrack_history' = backtrack_history]_vars
  /\ [][IsPrefix(backtrack_history, backtrack_history')]_vars

\* A removal logged after two placements: the log has grown to three entries.
C14_Witness ==
  /\ Returned("remove_piece", "True")
  /\ Len(backtrack_history) = 3
  /\ backtrack_history[1].operation = "place"
  /\ backtrack_history[2].operation = "place"
  /\ Len(placed_pieces) = 1

\* C15: remove_piece(pos) right after a successful place_piece(p, pos)
\* removes p: the cells, the placed pieces, the available multiset and the
\* index are as before the placement and the log has one remove entry for p
\* more, also when another placed piece is anchored at pos.
C15_RemoveInvertsPlace ==
  [][(/\ Calling("remove_piece")
      /\ backtrack_history # <<>>
      /\ Last(backtrack_history).operation = "place"
      /\ Last(backtrack_history).position = call.position) =>
      LET p == Last(placed_pieces)[1]
      IN  /\ ret' = "True"
          /\ cells' = Assign(cells, Covered(p.shape, call.position), None)
          /\ placed_pieces' = SubSeq(placed_pieces, 1, Len(placed_pieces) - 1)
          /\ SameBag(available_pieces', Append(available_pieces, p))
          /\ current_index' = current_index - 1
          /\ backtrack_history' =
               Append(backtrack_history,
                      [operation |-> "remove", piece_id |-> p.id,
                       position |-> call.position])]_vars

\* The removal that follows the placement of A at an anchor took B, placed
\* earlier at the same anchor, off the board.
C15_Witness ==
  /\ Returned("remove_piece", "True")
  /\ Len(backtrack_history) = 3
  /\ backtrack_history[2].operation = "place"
  /\ backtrack_history[2].position = backtrack_history[3].position
  /\ backtrack_history[2].piece_id # backtrack_history[3].piece_id

StateIds == {p.id : p \in StatePieces}

AllPlaced == \A p \in StatePieces : Count(PlacedList, p) = Count(state_pieces, p)

AllOccupied == \A c \in NonBlocked : cells[c] \in StateIds

\* C16: is_solved() is true iff every piece of the roster is placed and every
\* non-blocked cell holds a piece; a state over an all-blocked board with an
\* empty roster is solved before any placement.
C16_IsSolved ==
  /\ [][Calling("is_solved") =>
          (ret' = "True" <=> AllPlaced /\ AllOccupied)]_vars
  /\ [][(/\ Calling("is_solved")
         /\ NonBlocked = {}
         /\ state_pieces = <<>>
         /\ backtrack_history = <<>>) => ret' = "True"]_vars

\* The initial state over an all-blocked board with no pieces is solved.
C16_Witness ==
  /\ Returned("is_solved", "True")
  /\ NonBlocked = {}
  /\ state_pieces = <<>>
  /\ backtrack_history = <<>>

\* Each condition alone is not enough: all pieces placed with a cell left
\* empty, and a full board with a piece left over.
C16_WitnessNotFull ==
  /\ Returned("is_solved", "False")
  /\ AllPlaced /\ state_pieces # <<>> /\ ~ AllOccupied

C16_WitnessLeftOver ==
  /\ Returned("is_solved", "False")
  /\ AllOccupied /\ NonBlocked # {} /\ ~ AllPlaced

StatePlaceable(piece_shape, position) ==
  \A c \in Covered(piece_shape, position) :
    InBoard(c) /\ c \notin blocked_cells /\ cells[c] \notin StateIds

\* C17: place_piece fails and changes nothing when the piece is not among
\* the available pieces or the board refuses it; on success the board holds
\* the piece's cells, the piece has moved from available to placed with its
\* position, the index is one more and a place entry is logged.
\* remove_piece fails and changes nothing when no placed piece is anchored
\* at the position.
C17_StatePlaceRemoveChecked ==
  /\ [][Calling("place_piece") =>
          IF /\ call.piece \in Range(available_pieces)
             /\ StatePlaceable(call.piece.shape, call.position)
          THEN /\ ret' = "True"
               /\ \A c \in DOMAIN cells :
                    cells'[c] =
                      IF c \in Covered(call.piece.shape, call.position)
                      THEN call.piece.id ELSE cells[c]
               /\ placed_pieces' =
                    Append(placed_pieces, <<call.piece, call.position>>)
               /\ SameBag(Append(available_pieces', call.piece),
                          available_pieces)
               /\ current_index' = current_index + 1
               /\ Len(backtrack_history') = Len(backtrack_history) + 1
               /\ Last(backtrack_history').operation = "place"
          ELSE ret' = "ValueError" /\ StateUnchanged]_vars
  /\ [][(/\ Calling("remove_piece")
         /\ \A i \in 1 .. Len(placed_pieces) :
              placed_pieces[i][2] # call.position) =>
          ret' = "ValueError" /\ StateUnchanged]_vars

\* The rotated variant of an available piece, under its own id, is refused.
C17_Witness ==
  /\ Returned("place_piece", "ValueError")
  /\ call.piece = PAr
  /\ PA \in Range(available_pieces)
  /\ StatePlaceable(call.piece.shape, call.position)

(***************************************************************************)
(* Claims about PuzzlePiece, checked under SpecPiece.                      *)
(***************************************************************************)
Adjacent(a, b) ==
  \/ a[1] = b[1] /\ (a[2] = b[2] + 1 \/ b[2] = a[2] + 1)
  \/ a[2] = b[2] /\ (a[1] = b[1] + 1 \/ b[1] = a[1] + 1)

\* A shape is 4-connected when no proper non-empty part of it is without a
\* neighbour in the rest.
FourConnected(cs) ==
  \A part \in SUBSET cs :
    (part # {} /\ part # cs) =>
      \E a \in part, b \in cs \ part : Adjacent(a, b)

\* C19: the constructor fails exactly when the shape is empty or not
\* 4-directionally contiguous; {(0,0),(2,0)} and the diagonal pair
\* {(0,0),(1,1)} fail, every non-empty 4-connected shape is accepted.
C19_ConstructorChecksShape ==
  /\ [][piece_pc = "called" =>
          (made'.status = "ValueError" <=>
             (arg_shape = {} \/ ~ FourConnected(arg_shape)))]_vars
  /\ [][piece_pc = "called" => made'.status \in {"ValueError", "ok"}]_vars
  /\ []((piece_pc = "returned" /\
          arg_shape \in {{<<0, 0>>, <<2, 0>>}, {<<0, 0>>, <<1, 1>>}}) =>
          made.status = "ValueError")

\* The diagonal pair was refused.
C19_Witness ==
  /\ piece_pc = "returned"
  /\ arg_shape = {<<0, 0>>, <<1, 1>>}
  /\ made.status = "ValueError"

\* An L-shaped piece of four cells was accepted.
C19_WitnessAccepted ==
  /\ piece_pc = "returned"
  /\ arg_shape = {<<0, 0>>, <<1, 0>>, <<2, 0>>, <<2, 1>>}
  /\ made.status = "ok"

IsNormalized(cs) ==
  /\ \E c \in cs : c[1] = 0
  /\ \E c \in cs : c[2] = 0
  /\ \A c \in cs : c[1] >= 0 /\ c[2] >= 0

\* C20: every accepted piece, normalized or not, has between 1 and 8
\* precomputed orientations, each with a normalized shape (minimum row 0 and
\* minimum col 0), no two with the same shape.
C20_OrientationInvariant ==
  (piece_pc = "returned" /\ made.status = "ok") =>
    LET os == made.precomputed_orientations
    IN  /\ Len(os) \in 1 .. 8
        /\ \A i \in 1 .. Len(os) : IsNormalized(os[i].shape)
        /\ \A i, j \in 1 .. Len(os) : i # j => os[i].shape # os[j].shape

\* A piece given away from the origin keeps that shape as its first
\* orientation.
C20_Witness ==
  /\ piece_pc = "returned"
  /\ made.status = "ok"
  /\ ~ IsNormalized(arg_shape)
  /\ made.precomputed_orientations[1].shape = arg_shape

\* What does hold: the count, the distinctness also after normalization,
\* and normalized shapes for every piece that was given normalized.
C20_OrientationsOfNormalized ==
  (piece_pc = "returned" /\ made.status = "ok") =>
    LET os == made.precomputed_orientations
    IN  /\ Len(os) \in 1 .. 8
        /\ \A i, j \in 1 .. Len(os) :
             i # j => get_normalized_shape(os[i].shape) #
                        get_normalized_shape(os[j].shape)
        /\ \A i \in 2 .. Len(os) : IsNormalized(os[i].shape)
        /\ IsNormalized(arg_shape) => IsNormalized(os[1].shape)

(***************************************************************************)
(* Claims about the shape functions, checked under SpecShape.              *)
(***************************************************************************)
ReturnedFrom(op) ==
  piece_pc = "returned" /\ made.op = op /\ made.status = "ok"

\* C21: rotation.get_all_orientations of any non-empty shape, normalized or
\* not, returns between 1 and 8 shapes, pairwise distinct, and the
\* normalized form of the shape is one of them.
C21_OrientationsContainNormalized ==
  (ReturnedFrom("get_all_orientations") /\ arg_shape # {}) =>
    /\ Len(made.value) \in 1 .. 8
    /\ \A i, j \in 1 .. Len(made.value) :
         i # j => made.value[i] # made.value[j]
    /\ \E i \in 1 .. Len(made.value) :
         made.value[i] = normalize_shape(arg_shape)

\* A shape given away from the origin is returned as it was given, and its
\* normalized form is not in the list.
C21_Witness ==
  /\ ReturnedFrom("get_all_orientations")
  /\ arg_shape = {<<1, 1>>}
  /\ made.value = <<{<<1, 1>>}>>

\* What does hold: the count, the distinctness also of the normalized
\* forms, and the normalized form of the shape being the normalized form
\* of the first entry.
C21_OrientationsUpToNormalization ==
  (ReturnedFrom("get_all_orientations") /\ arg_shape # {}) =>
    /\ Len(made.value) \in 1 .. 8
    /\ \A i, j \in 1 .. Len(made.value) :
         i # j => normalize_shape(made.value[i]) #
                    normalize_shape(made.value[j])
    /\ made.value[1] = arg_shape
    /\ \A i \in 2 .. Len(made.value) : IsNormalized(made.value[i])

\* C22: a rotation by 360 degrees changes nothing but the position of the
\* shape; a rotation by 90 and then by 270 degrees gives the normalized
\* shape; rotating by a and then by b gives, up to normalization, the
\* rotation by a + b.
C22_RotationComposes ==
  /\ (ReturnedFrom("rotate_shape") /\ made.degrees = 360) =>
       normalize_shape(made.value) = normalize_shape(arg_shape)
  /\ (ReturnedFrom("rotate_twice") /\ made.a = 90 /\ made.b = 270) =>
       made.value = normalize_shape(arg_shape)
  /\ ReturnedFrom("rotate_twice") =>
       normalize_shape(made.value) =
         normalize_shape(rotate_shape(arg_shape, made.a + made.b))

\* An L-shaped piece away from the origin was rotated by 90 and then by 270
\* degrees.
C22_Witness ==
  /\ ReturnedFrom("rotate_twice")
  /\ made.a = 90 /\ made.b = 270
  /\ arg_shape = {<<-1, 1>>, <<0, 1>>, <<1, 1>>, <<1, 2>>}
  /\ made.value = {<<0, 0>>, <<1, 0>>, <<2, 0>>, <<2, 1>>}

\* C23: rotate_shape returns a shape normalized to the origin for every
\* non-empty shape and every multiple of 90 degrees, 0, 360 and negative
\* multiples included, and fails with an invalid-argument error for any
\* other value of degrees.
C23_RotateNormalizes ==
  (piece_pc = "returned" /\ made.op = "rotate_shape" /\ arg_shape # {}) =>
    /\ made.degrees % 90 = 0 =>
         made.status = "ok" /\ IsNormalized(made.value)
    /\ made.degrees % 90 # 0 => made.status = "ValueError"

\* A rotation by 0 degrees returned the shape where it was.
C23_Witness ==
  /\ ReturnedFrom("rotate_shape")
  /\ made.degrees = 0
  /\ arg_shape = {<<1, 1>>}
  /\ made.value = {<<1, 1>>}

\* What does hold: the error for every value that is not a multiple of 90,
\* and a normalized shape for every multiple of 90 that is not a multiple
\* of 360; PuzzlePiece.rotate behaves the same way.
C23_RotateNormalizesTurns ==
  (piece_pc = "returned" /\ made.op \in {"rotate_shape", "PuzzlePiece.rotate"}
     /\ arg_shape # {} /\ FourConnected(arg_shape)) =>
    /\ made.degrees % 90 # 0 <=> made.status = "ValueError"
    /\ (made.status = "ok" /\ made.degrees % 360 # 0) =>
         IsNormalized(made.value)
    /\ (made.status = "ok" /\ made.degrees % 360 = 0) =>
         made.value = arg_shape

(***************************************************************************)
(* Claims about the PuzzleBoard, checked under SpecAnchor.                 *)
(***************************************************************************)
\* The leftmost cell of the topmost row of a transformation.
AnchorCell(t) ==
  CHOOSE a \in t :
    \A c \in t : a[2] < c[2] \/ (a[2] = c[2] /\ a[1] <= c[1])

\* The transformation moved so that its anchor cell is on (x = col, y = row).
Anchored(t, row, col) ==
  {<<c[1] - AnchorCell(t)[1] + col, c[2] - AnchorCell(t)[2] + row>> : c \in t}

AnchorFits(b, t, row, col) ==
  \A c \in Anchored(t, row, col) :
    /\ c[1] \in 0 .. b.width - 1
    /\ c[2] \in 0 .. b.height - 1
    /\ c \notin b.filled_cells

ExampleTransformation == {<<1, 0>>, <<2, 0>>, <<0, 1>>}

\* C24: check_piece, insert_piece and remove_piece move the transformation
\* so that the leftmost cell of its topmost row lands on (x = col, y = row);
\* insert_piece fills exactly the moved cells, check_piece is false when a
\* moved cell is outside the board or filled.  [(1,0),(2,0),(0,1)] inserted
\* at row 1, col 2 fills (2,1), (3,1), (1,2) and is rejected at row 0, col 0.
C24_Anchoring ==
  /\ [][(piece_pc = "called" /\ made'.op = "check_piece") =>
          (made'.value <=>
             AnchorFits(board, arg_shape, made'.row, made'.col))]_vars
  /\ [][(piece_pc = "called" /\ made'.op = "insert_piece") =>
          IF AnchorFits(board, arg_shape, made'.row, made'.col)
          THEN /\ made'.status = "ok"
               /\ board'.filled_cells =
                    board.filled_cells \cup
                      Anchored(arg_shape, made'.row, made'.col)
          ELSE /\ made'.status = "PiecePlacementError"
               /\ board' = board]_vars
  /\ [][(piece_pc = "called" /\ made'.op = "remove_piece"
           /\ made'.status = "ok") =>
          /\ Anchored(arg_shape, made'.row, made'.col) \subseteq
               board.filled_cells
          /\ board'.filled_cells =
               board.filled_cells \ Anchored(arg_shape, made'.row, made'.col)]_vars
  /\ [][(piece_pc = "called" /\ arg_shape = ExampleTransformation
           /\ board.filled_cells = {}) =>
          /\ (made'.op = "insert_piece" /\ made'.row = 1 /\ made'.col = 2) =>
               board'.filled_cells = {<<2, 1>>, <<3, 1>>, <<1, 2>>}
          /\ (made'.op = "insert_piece" /\ made'.row = 0 /\ made'.col = 0) =>
               made'.status = "PiecePlacementError"
          /\ (made'.op = "check_piece" /\ made'.row = 0 /\ made'.col = 0) =>
               ~ made'.value]_vars

\* The example transformation was inserted at row 1, col 2 of an empty
\* board.
C24_Witness ==
  /\ piece_pc = "returned"
  /\ made.op = "insert_piece" /\ made.status = "ok"
  /\ made.row = 1 /\ made.col = 2
  /\ arg_shape = ExampleTransformation
  /\ board.filled_cells = {<<2, 1>>, <<3, 1>>, <<1, 2>>}

\* The example transformation was refused at row 0, col 0, where one of its
\* cells would have a negative x.
C24_WitnessRejected ==
  /\ piece_pc = "returned"
  /\ made.op = "check_piece" /\ ~ made.value
  /\ made.row = 0 /\ made.col = 0
  /\ arg_shape = ExampleTransformation
  /\ board.filled_cells = {}

(***************************************************************************)
(* Claims about validator.find_connected_components and is_contiguous,     *)
(* checked under SpecShape.                                                *)
(***************************************************************************)
\* The components of a shape: the 4-connected parts with no neighbour in
\* the rest of the shape.
IsComponent(part, cs) ==
  /\ part # {}
  /\ part \subseteq cs
  /\ FourConnected(part)
  /\ \A a \in part, b \in cs \ part : ~ Adjacent(a, b)

ComponentsOf(cs) == {part \in SUBSET cs : IsComponent(part, cs)}

\* C25: find_connected_components returns a partition of the shape into its
\* maximal 4-connected groups, the empty list for the empty shape, and
\* is_contiguous is true exactly when there is at most one group.
C25_ComponentsPartition ==
  /\ ReturnedFrom("find_connected_components") =>
       /\ Range(made.value) = ComponentsOf(arg_shape)
       /\ Len(made.value) = Cardinality(ComponentsOf(arg_shape))
       /\ UNION Range(made.value) = arg_shape
       /\ \A i, j \in 1 .. Len(made.value) :
            i # j => made.value[i] \cap made.value[j] = {}
       /\ arg_shape = {} => made.value = <<>>
  /\ ReturnedFrom("is_contiguous") =>
       (made.value <=>
          \A components \in find_connected_components(arg_shape) :
            Len(components) <= 1)

\* A shape of two groups, one of them a diagonal neighbour of the other,
\* was split in two.
C25_Witness ==
  /\ ReturnedFrom("find_connected_components")
  /\ arg_shape = {<<0, 0>>, <<0, 1>>, <<1, 2>>}
  /\ Range(made.value) = {{<<0, 0>>, <<0, 1>>}, {<<1, 2>>}}

\* is_contiguous answered False for a shape of two groups.
C25_WitnessNotContiguous ==
  /\ ReturnedFrom("is_contiguous")
  /\ arg_shape = {<<0, 0>>, <<0, 1>>, <<1, 2>>}
  /\ ~ made.value

\* The normalized images of a shape under the eight symmetries of the
\* square grid.
SymmetryImages(cs) ==
  { {<<c[1], c[2]>> : c \in cs},         {<<c[2], 0 - c[1]>> : c \in cs},
    {<<0 - c[1], 0 - c[2]>> : c \in cs}, {<<0 - c[2], c[1]>> : c \in cs},
    {<<c[1], 0 - c[2]>> : c \in cs},     {<<0 - c[1], c[2]>> : c \in cs},
    {<<c[2], c[1]>> : c \in cs},         {<<0 - c[2], 0 - c[1]>> : c \in cs} }

AtOrigin(cs) ==
  {<<c[1] - Min({d[1] : d \in cs}), c[2] - Min({d[2] : d \in cs})>> : c \in cs}

NormalizedImages(cs) == {AtOrigin(image) : image \in SymmetryImages(cs)}

\* C29: for every non-empty contiguous shape, rotation.get_all_orientations,
\* the orientations PuzzlePiece precomputes and
\* PuzzlePiece.get_all_orientations give the same set of normalized shapes,
\* the normalized images of the shape under the eight symmetries.
C29_OrientationGeneratorsAgree ==
  /\ (ReturnedFrom("get_all_orientations") /\ arg_shape # {}
        /\ FourConnected(arg_shape)) =>
       {AtOrigin(made.value[i]) : i \in 1 .. Len(made.value)} =
         NormalizedImages(arg_shape)
  /\ (piece_pc = "returned"
        /\ made.op = "PuzzlePiece.get_all_orientations") =>
       IF arg_shape # {} /\ FourConnected(arg_shape)
       THEN /\ made.status = "ok"
            /\ {AtOrigin(made.value[i]) : i \in 1 .. Len(made.value)} =
                 NormalizedImages(arg_shape)
            /\ {AtOrigin(made.precomputed_orientations[i].shape) :
                  i \in 1 .. Len(made.precomputed_orientations)} =
                 NormalizedImages(arg_shape)
       ELSE made.status = "ValueError"

\* An L-shaped piece of four cells, away from the origin, has eight
\* orientations from the piece's method and eight precomputed ones.
C29_Witness ==
  /\ ReturnedFrom("PuzzlePiece.get_all_orientations")
  /\ arg_shape = {<<-1, 1>>, <<0, 1>>, <<1, 1>>, <<1, 2>>}
  /\ Len(made.value) = 8
  /\ Len(made.precomputed_orientations) = 8

\* The same piece has eight orientations from rotation.get_all_orientations.
C29_WitnessRotation ==
  /\ ReturnedFrom("get_all_orientations")
  /\ arg_shape = {<<-1, 1>>, <<0, 1>>, <<1, 1>>, <<1, 2>>}
  /\ Len(made.value) = 8

(***************************************************************************)
(* Claims about the undoing and the termination of solve_puzzle, checked   *)
(* under SpecSolver and SpecSolverFair.                                    *)
(***************************************************************************)
\* Insertions less removals among the first k calls of the log.
Balance(k) ==
  Cardinality({i \in 1 .. k : log[i].op = "insert"}) -
    Cardinality({i \in 1 .. k : log[i].op = "remove"})

\* The number of log entries at the moment the call at depth d was entered:
\* none for the outermost call, otherwise up to the latest insertion made by
\* the call at depth d - 1.
EntryIndex(d) ==
  IF d = 1 THEN 0
  ELSE Max({i \in 1 .. Len(log) :
              log[i].op = "insert" /\ Balance(i) = d - 1})

\* The remaining counts after the first k calls of the log.
counts_after(k) ==
  [piece \in DOMAIN puzzle.counts |->
     puzzle.counts[piece]
       - Cardinality({i \in 1 .. k :
                        log[i].op = "insert" /\ log[i].piece = piece})
       + Cardinality({i \in 1 .. k :
                        log[i].op = "remove" /\ log[i].piece = piece})]

\* C26: when any call of solve_puzzle, outermost or recursive, returns
\* None, the filled cells of the board and every remaining count are what
\* they were when that call was entered; a failed outermost call leaves
\* the board and the counts as they were supplied.
C26_UndoRestores ==
  /\ [](/\ board.filled_cells = filled_after(Len(log))
        /\ pieces = counts_after(Len(log)))
  /\ [][(stack # <<>> /\ Len(stack') < Len(stack) /\ result' = "None") =>
          /\ board'.filled_cells = filled_after(EntryIndex(Len(stack)))
          /\ pieces' = counts_after(EntryIndex(Len(stack)))]_vars
  /\ [](Returned_("None") =>
          /\ board = InitialBoard
          /\ pieces = puzzle.counts)

\* A search that placed pieces, took them all back and failed.
C26_Witness ==
  /\ Returned_("None")
  /\ Len(log) >= 4
  /\ board = InitialBoard
  /\ pieces = puzzle.counts

\* A recursive call that had placed and removed a piece has just returned
\* None to its caller.
C26_WitnessRecursive ==
  /\ Running("wait") /\ result = "None"
  /\ Len(log) > EntryIndex(Len(stack) + 1)
  /\ board.filled_cells = filled_after(EntryIndex(Len(stack) + 1))

InitiallyEmpty ==
  puzzle.width * puzzle.height - Cardinality(puzzle.filled_cells)

\* C27: solve_puzzle eventually returns; every recursive call is made on a
\* board with strictly more filled cells than the board its caller was
\* entered with; the depth of the recursion is at most the number of cells
\* empty at the start plus one.
C27_Termination ==
  /\ <>(stack = <<>>)
  /\ [][Len(stack') > Len(stack) =>
          /\ Cardinality(board'.filled_cells) >
               Cardinality(filled_after(EntryIndex(Len(stack))))
          /\ Cardinality(board'.filled_cells) >
               Cardinality(board.filled_cells)]_vars
  /\ [](Len(stack) <= InitiallyEmpty + 1)

\* The search has returned after a run that went as deep as the bound
\* allows: one call for every cell empty at the start and one more.
C27_Witness ==
  /\ stack = <<>>
  /\ result = "board"
  /\ InitiallyEmpty >= 2
  /\ Len(InForce(log)) = InitiallyEmpty

\* The recursion is at its greatest depth.
C27_WitnessDepth ==
  /\ Len(stack) = InitiallyEmpty + 1
  /\ InitiallyEmpty >= 2

(***************************************************************************)
(* Claims about the counters of PuzzleState, checked under SpecState.      *)
(***************************************************************************)
Statistics ==
  get_statistics(backtrack_history, placed_pieces, available_pieces)

\* C28: current_index equals the number of pieces placed, which equals the
\* number of "place" entries less the number of "remove" entries of the
\* history; it is never negative; the pieces placed and the pieces
\* remaining add up to the size of the roster.
C28_IndexAccounting ==
  /\ current_index = Statistics.pieces_placed
  /\ current_index = Len(placed_pieces)
  /\ current_index = Statistics.placements - Statistics.removals
  /\ current_index >= 0
  /\ Statistics.pieces_placed + Statistics.pieces_remaining =
       Len(state_pieces)

\* Two pieces were placed and one was taken back.
C28_Witness ==
  /\ pc = "returned" /\ call.op = "remove_piece" /\ ret = "True"
  /\ Statistics.placements = 2
  /\ Statistics.removals = 1
  /\ current_index = 1
  /\ Len(state_pieces) = 2

(***************************************************************************)
(* Claims about validate_piece_placement, checked under SpecValidator.     *)
(***************************************************************************)
\* C30: in every state the board can reach through place_piece,
\* remove_piece and clear, with any blocked cells, and for every shape and
\* position, validate_piece_placement called with get_occupied_cells()
\* returns no error exactly when can_place_piece is true; it reports
\* OUT_OF_BOUNDS for every cell out of range and OVERLAP for every occupied
\* cell.
C30_ValidatorAgreesWithBoard ==
  (pc = "returned" /\ call.op = "validate_piece_placement") =>
    /\ ret = {} <=> can_place_piece(cells, call.piece_shape, call.position)
    /\ \A c \in Covered(call.piece_shape, call.position) :
         /\ ~ InBoard(c) <=> [type |-> "OUT_OF_BOUNDS", cell |-> c] \in ret
         /\ (InBoard(c) /\ cells[c] # None) <=>
              [type |-> "OVERLAP", cell |-> c] \in ret
    /\ \A e \in ret : e.cell \in Covered(call.piece_shape, call.position)

\* After clear() on a board with a blocked cell the validator reports no
\* error for a piece on the blocked cell, which can_place_piece refuses.
C30_Witness ==
  /\ pc = "returned" /\ call.op = "validate_piece_placement"
  /\ ret = {}
  /\ call.piece_shape # {}
  /\ ~ can_place_piece(cells, call.piece_shape, call.position)
  /\ \E c \in Covered(call.piece_shape, call.position) : c \in blocked_cells

\* What does hold: the errors are one per cell out of range or occupied,
\* and as long as every blocked cell holds its marker the validator and
\* can_place_piece agree.
C30_ValidatorAgreesWhileMarked ==
  (pc = "returned" /\ call.op = "validate_piece_placement") =>
    /\ (\A b \in blocked_cells : cells[b] = BLOCKED) =>
         (ret = {} <=>
            can_place_piece(cells, call.piece_shape, call.position))
    /\ \A c \in Covered(call.piece_shape, call.position) :
         /\ ~ InBoard(c) <=> [type |-> "OUT_OF_BOUNDS", cell |-> c] \in ret
         /\ (InBoard(c) /\ cells[c] # None) <=>
              [type |-> "OVERLAP", cell |-> c] \in ret
    /\ \A e \in ret : e.cell \in Covered(call.piece_shape, call.position)
    /\ can_place_piece(cells, call.piece_shape, call.position) => ret = {}

\* A piece reaching out of the board over an occupied cell got an error of
\* each kind.
C30_WitnessBothErrors ==
  /\ pc = "returned" /\ call.op = "validate_piece_placement"
  /\ \E e \in ret : e.type = "OUT_OF_BOUNDS"
  /\ \E e \in ret : e.type = "OVERLAP"

=============================================================================
